---- MODULE Spec2Model ----
(***************************************************************************)
(* Block-partitioned local attention, halo exchange and incremental        *)
(* decoding of mesh_tensorflow/layers.py and                               *)
(* mesh_tensorflow/transformer/transformer_layers.py.                      *)
(*                                                                         *)
(* Tensors are modelled along their length / block axes only.  The key and *)
(* the value computed for sequence position p are both written KeyOf(p)    *)
(* (a non-zero tag naming the position they were projected from); 0 is a   *)
(* zero-filled entry.  A bias is counted in units of -1e9: 0 is "visible". *)
(* The output of the attention kernel for one query is the bag of value    *)
(* entries that receive a non-negligible softmax weight.                   *)
(***************************************************************************)
EXTENDS Integers, Sequences, FiniteSets, TLC

VARIABLES
  length, window_size, length_per_split,  \* arguments of masked_local_attention_1d
  block_length, num_blocks,               \* its block partition
  k, v, mask, o,                          \* its augmented blocks, bias and output
  window_length, step_num, prev_k, prev_v, y,
                                          \* masked_local_attention_1d_incremental
  radius, shared_kv, context, lsa_o,      \* LocalSelfAttention layer and its context
  halo,                                   \* result of the last halo-exchange call
  bucket,                                 \* last _relative_position_bucket call
  call,                                   \* last call of a graph-building function
  cache, bias_log,                        \* context.cache and the compute_bias calls
  dec,                                    \* decode state of one attention layer
  msa,                                    \* multihead_self_attention_incremental
  search                                  \* the block-length loop, step by step

vars == <<length, window_size, length_per_split, block_length, num_blocks,
          k, v, mask, o, window_length, step_num, prev_k, prev_v, y,
          radius, shared_kv, context, lsa_o, halo, bucket, call, cache, bias_log,
          dec, msa, search>>

batch_vars == <<block_length, num_blocks, k, v, mask, o>>
inc_vars   == <<step_num, prev_k, prev_v, y>>
lsa_vars   == <<context, lsa_o>>
cfg_vars   == <<length, window_size, length_per_split, window_length,
                radius, shared_kv>>
new_vars   == <<dec, msa, search>>
ext_vars   == <<bucket, call, cache, bias_log, new_vars>>

----------------------------------------------------------------------------
(* Bounds of the model.                                                    *)
MaxLength == 6
MaxWindow == 3
MaxSteps  == 6
MaxBigLength == 270
MaxBlocks == 3
MaxBlockSize == 3
MaxBlocks2d == 2
MaxBlockSize2d == 2
MaxBuckets == 7
MaxBeyond == 2
MaxHeads == 4
MaxFilter == 4
MaxBatch == 2
MaxChannels == 2
MaxCalls == 3
MaxLayerHeads == 2
LayerRadius == 2
MaxShard == 132
MaxStride == 2
MaxConvBlock == 2
MaxKeys == 3
MaxLogit == 1

(* The values of max_distance the calls are made with (128 is the default). *)
Distances == {16, 24, 32, 48, 64, 96, 128}

(* Program constants.                                                      *)
None == 0
MinBlockBound == 128
FullAttentionBound == 256
DefaultBuckets == 32

----------------------------------------------------------------------------
(* Helpers shared by the operations.                                       *)

max(a, b) == IF a >= b THEN a ELSE b

Divisors(n) == {d \in 1..n : n % d = 0}

(* The key / value projected from sequence position p (einsum with wk/wv). *)
KeyOf(p) == p + 1

(* mtf.reshape of a [length] axis into [num_blocks, block_length].         *)
reshape(t, nb, bl) == [b \in 0..(nb - 1) |-> [i \in 0..(bl - 1) |-> t[b * bl + i]]]

(* mtf.reshape of [num_blocks, block_length] back into [length].           *)
reshape_back(t, nb, bl) == [p \in 0..(nb * bl - 1) |-> t[p \div bl][p % bl]]

(* mtf.left_halo_exchange: every block is extended on the left with the    *)
(* halo_size entries that precede it in the sequence, zero-filled before   *)
(* the start of the sequence.                                              *)
left_halo_exchange(t, nb, bl, halo_size) ==
  [b \in 0..(nb - 1) |->
     [j \in 0..(halo_size + bl - 1) |->
        LET g == b * bl - halo_size + j
        IN  IF g < 0 THEN 0 ELSE t[g \div bl][g % bl]]]

(* mtf.halo_exchange: every block is extended on both sides, zero-filled   *)
(* outside the sequence.                                                   *)
halo_exchange(t, nb, bl, halo_size) ==
  [b \in 0..(nb - 1) |->
     [j \in 0..(2 * halo_size + bl - 1) |->
        LET g == b * bl - halo_size + j
        IN  IF g < 0 \/ g >= nb * bl THEN 0 ELSE t[g \div bl][g % bl]]]

(* mtf.pad(x, [left, right], dim): local zero padding of one axis of size  *)
(* n; a padding of None pads nothing.                                      *)
pad(t, n, left, right) ==
  [j \in 0..(left + n + right - 1) |->
     IF j < left \/ j >= left + n THEN 0 ELSE t[j - left]]

(* The smallest bias (in units of -1e9) of row b: softmax gives every      *)
(* other entry a weight of ~0.                                             *)
MinBias(row) == CHOOSE m \in {row[j] : j \in DOMAIN row} :
                   \A j \in DOMAIN row : m <= row[j]

(* The memory indices that get softmax weight for a query whose bias row   *)
(* is row.                                                                 *)
Support(row) == {j \in DOMAIN row : row[j] = MinBias(row)}

(* Bag of the entries of mem at the indices idx, counted by entry.         *)
BagOf(mem, idx, ids) == [e \in ids |-> Cardinality({j \in idx : mem[j] = e})]

(* dot_product_attention for one query: logits += mask, softmax over       *)
(* length_kv, weights . v.  bias is the query's row of the mask, or the    *)
(* all-zero row when mask is None.                                         *)
dot_product_attention(vmem, bias, ids) == BagOf(vmem, Support(bias), ids)

NoBias(n) == [j \in 0..(n - 1) |-> 0]

----------------------------------------------------------------------------
(* masked_local_attention_1d                                               *)

(* while length_per_split % block_length != 0: block_length -= 1           *)
RECURSIVE block_length_search(_, _)
block_length_search(lps, bl) ==
  IF lps % bl /= 0 THEN block_length_search(lps, bl - 1) ELSE bl

(* block_length_start without the floor of 128 *)
block_length_start_nofloor(ws) == ws

(* The start value of the search.                                          *)
block_length_start(ws) == max(ws, MinBlockBound)

(* "Choose a suitable block size": length_per_split defaults to the length *)
choose_block_length(ws, lps, len) ==
  block_length_search(IF lps = None THEN len ELSE lps, block_length_start(ws))

(* num_blocks = length.size // block_length                                *)
choose_num_blocks(len, bl) == len \div bl

(* mask_forward that lets a query see one position ahead *)
mask_forward_late(i, j, ws) == IF j > i + ws + 1 THEN 1 ELSE 0

(* "prevent looking forward": mpos > qpos, with qpos = range + window_size *)
mask_forward(i, j, ws) == IF j > i + ws THEN 1 ELSE 0

(* mask_backward with less instead of less_equal *)
mask_backward_strict(i, j, ws, bl) == IF j < (i + ws) - bl THEN 1 ELSE 0

(* "prevent looking >= block_length timesteps backward":                   *)
(* mpos <= qpos - block_length                                             *)
mask_backward(i, j, ws, bl) == IF j <= (i + ws) - bl THEN 1 ELSE 0

(* mask over [query_block_length, padded_memory_block_length]              *)
local_mask(ws, bl) ==
  [i \in 0..(bl - 1) |->
     [j \in 0..(ws + bl - 1) |-> mask_forward(i, j, ws) + mask_backward(i, j, ws, bl)]]

(* keys (and values) of the whole sequence, before blocking                *)
projected(len) == [p \in 0..(len - 1) |-> KeyOf(p)]

(* a halo that reaches no further than the immediate left neighbour *)
memory_halo_adjacent(t, nb, bl, ws) ==
  [b \in 0..(nb - 1) |->
     [j \in 0..(ws + bl - 1) |->
        LET g == b * bl - ws + j
        IN  IF g < (b - 1) * bl THEN 0 ELSE left_halo_exchange(t, nb, bl, ws)[b][j]]]

(* the halo that augments the key / value blocks                           *)
memory_halo(t, nb, bl, ws) == left_halo_exchange(t, nb, bl, ws)

masked_local_attention_1d ==
  /\ num_blocks = 0
  /\ \E bl \in {choose_block_length(window_size, length_per_split, length)} :
     \E nb \in {choose_num_blocks(length, bl)} :
       LET kb == memory_halo(reshape(projected(length), nb, bl), nb, bl, window_size)
           vb == memory_halo(reshape(projected(length), nb, bl), nb, bl, window_size)
           m  == local_mask(window_size, bl)
           ob == [b \in 0..(nb - 1) |->
                    [i \in 0..(bl - 1) |->
                       dot_product_attention(vb[b], m[i], 0..length)]]
       IN  /\ block_length' = bl
           /\ num_blocks' = nb
           /\ k' = kb
           /\ v' = vb
           /\ mask' = m
           /\ o' = reshape_back(ob, nb, bl)
  /\ UNCHANGED <<cfg_vars, inc_vars, lsa_vars, halo, ext_vars>>

----------------------------------------------------------------------------
(* masked_local_attention_1d_incremental                                   *)

(* current_position without the modulo *)
current_position_nomod(s, t, wl) == s = t

(* current_position = equal(range(window_length), mod(step_num, size))     *)
current_position(s, t, wl) == s = t % wl

(* a where that overwrites every slot of the window *)
where_current_all(new, prev, t, wl) == [s \in 0..(wl - 1) |-> new]

(* mtf.where(current_position, new, prev)                                  *)
where_current(new, prev, t, wl) ==
  [s \in 0..(wl - 1) |-> IF current_position(s, t, wl) THEN new ELSE prev[s]]

masked_local_attention_1d_incremental ==
  /\ window_length > 0
  /\ step_num < length
  /\ LET nk == where_current(KeyOf(step_num), prev_k, step_num, window_length)
         nv == where_current(KeyOf(step_num), prev_v, step_num, window_length)
     IN  /\ prev_k' = nk
         /\ prev_v' = nv
         /\ y' = dot_product_attention(nv, NoBias(window_length), 0..length)
  /\ step_num' = step_num + 1
  /\ UNCHANGED <<cfg_vars, batch_vars, lsa_vars, halo, ext_vars>>

----------------------------------------------------------------------------
(* LocalSelfAttention.call, incremental mode                               *)

(* context.get_states(n): the next n states recorded by the previous step  *)
get_states(ctx, n) == [i \in 1..n |-> ctx.states[i]]

(* context.record_new_states                                               *)
record_new_states(new_states, states) == new_states \o states

(* visible = greater_equal(context.position, window_pos), as a bias        *)
lsa_bias(pos, r) == [w \in 0..(r - 1) |-> IF pos >= w THEN 0 ELSE 1]

(* lsa_window that clamps the position instead of wrapping it *)
lsa_window_clamped(x, prev, pos, r) ==
  [w \in 0..(r - 1) |-> IF w = (IF pos < r THEN pos ELSE r - 1) THEN x ELSE prev[w]]

(* The kv window after the where(...) of incremental mode                  *)
lsa_window(x, prev, pos, r) ==
  [w \in 0..(r - 1) |-> IF w = pos % r THEN x ELSE prev[w]]

LocalSelfAttention_call ==
  /\ radius > 0
  /\ context.mode = "incremental"
  /\ context.position < MaxSteps
  /\ LET pos == context.position
         n   == IF shared_kv THEN 1 ELSE 2
         old == get_states(context, n)
         new == [i \in 1..n |-> lsa_window(KeyOf(pos), old[i], pos, radius)]
         vv  == new[n]
     IN  /\ lsa_o' = dot_product_attention(vv, lsa_bias(pos, radius), 0..MaxSteps)
         /\ context' = [mode |-> "incremental",
                        position |-> pos + 1,
                        states |-> record_new_states(<<>>, new)]
  /\ UNCHANGED <<cfg_vars, batch_vars, inc_vars, halo, ext_vars>>

----------------------------------------------------------------------------
(* The block partition of masked_local_attention_1d on its own ("Choose a  *)
(* suitable block size" up to the num_blocks dimension).                   *)

block_partition ==
  /\ num_blocks = 0
  /\ \E bl \in {choose_block_length(window_size, length_per_split, length)} :
       /\ block_length' = bl
       /\ num_blocks' = choose_num_blocks(length, bl)
  /\ UNCHANGED <<cfg_vars, k, v, mask, o, inc_vars, lsa_vars, halo, ext_vars>>

----------------------------------------------------------------------------
(* local_1d_halo_exchange and local_self_attention_spatial_blocks          *)

(* number of blocks of a tensor whose blocks dimension may be absent       *)
Blocks(n) == IF n = None THEN 1 ELSE n

(* a [num_blocks, block] tensor of keys, one per sequence position         *)
blocks_1d(nb, w) == reshape(projected(Blocks(nb) * w), Blocks(nb), w)

(* local_1d_halo_exchange that exchanges on both sides in mask_right mode *)
local_1d_halo_exchange_both(kk, vv, nwb, w, mr) ==
  IF nwb /= None
  THEN [k |-> halo_exchange(kk, nwb, w, w), v |-> halo_exchange(vv, nwb, w, w)]
  ELSE [k |-> [b \in {0} |-> pad(kk[0], w, w, w)],
        v |-> [b \in {0} |-> pad(vv[0], w, w, w)]]

local_1d_halo_exchange(kk, vv, nwb, w, mr) ==
  IF nwb /= None
  THEN IF mr
       THEN [k |-> left_halo_exchange(kk, nwb, w, w),
             v |-> left_halo_exchange(vv, nwb, w, w)]
       ELSE [k |-> halo_exchange(kk, nwb, w, w),
             v |-> halo_exchange(vv, nwb, w, w)]
  ELSE IF mr
       THEN [k |-> [b \in {0} |-> pad(kk[0], w, w, None)],
             v |-> [b \in {0} |-> pad(vv[0], w, w, None)]]
       ELSE [k |-> [b \in {0} |-> pad(kk[0], w, w, w)],
             v |-> [b \in {0} |-> pad(vv[0], w, w, w)]]

(* mtf.concat of two [block_length, n] masks along the memory axis         *)
concat_rows(a, b, n1, n2) ==
  [i \in DOMAIN a |->
     [j \in 0..(n1 + n2 - 1) |-> IF j < n1 THEN a[i][j] ELSE b[i][j - n1]]]

(* bias_query_part with less_equal instead of less *)
bias_query_part_diag(i, j) == IF i <= j THEN 1 ELSE 0

(* attention_bias_local_block(mesh, block_length, memory_length):          *)
(* memory_length is resized to block_length.size; zeros for the memory     *)
(* part, less(range(block_length), range(memory_length)) for the rest      *)
bias_query_part(i, j) == IF i < j THEN 1 ELSE 0

attention_bias_local_block(bl, ml) ==
  LET memory_length == bl
      memory_mask == [i \in 0..(bl - 1) |-> [j \in 0..(memory_length - 1) |-> 0]]
      qmask == [i \in 0..(bl - 1) |->
                  [j \in 0..(memory_length - 1) |-> bias_query_part(i, j)]]
  IN  concat_rows(memory_mask, qmask, memory_length, memory_length)

NoHalo == [op |-> "none", num_h_blocks |-> 0, h_dim |-> 0, num_w_blocks |-> 0,
           w_dim |-> 0, mask_right |-> FALSE, k |-> <<>>, v |-> <<>>,
           mask |-> <<>>, o |-> <<>>]

call_local_1d_halo_exchange ==
  /\ halo.op = "none"
  /\ \E nwb \in {None} \cup 1..MaxBlocks, w \in 1..MaxBlockSize, mr \in BOOLEAN :
       LET r == local_1d_halo_exchange(blocks_1d(nwb, w), blocks_1d(nwb, w),
                                       nwb, w, mr)
       IN  halo' = [NoHalo EXCEPT !.op = "local_1d", !.num_w_blocks = nwb,
                                  !.w_dim = w, !.mask_right = mr,
                                  !.k = r.k, !.v = r.v]
  /\ UNCHANGED <<cfg_vars, batch_vars, inc_vars, lsa_vars, ext_vars>>

local_self_attention_spatial_blocks ==
  /\ halo.op = "none"
  /\ \E nwb \in 1..MaxBlocks, w \in 1..MaxBlockSize, mr \in BOOLEAN :
       LET r == local_1d_halo_exchange(blocks_1d(nwb, w), blocks_1d(nwb, w),
                                       nwb, w, mr)
           m == IF mr THEN attention_bias_local_block(w, w)
                ELSE [i \in 0..(w - 1) |-> [j \in DOMAIN r.k[0] |-> 0]]
           ob == [b \in 0..(nwb - 1) |->
                    [i \in 0..(w - 1) |->
                       dot_product_attention(r.v[b], m[i], 0..(nwb * w))]]
       IN  halo' = [NoHalo EXCEPT !.op = "spatial", !.num_w_blocks = nwb,
                                  !.w_dim = w, !.mask_right = mr,
                                  !.k = r.k, !.v = r.v, !.mask = m, !.o = ob]
  /\ UNCHANGED <<cfg_vars, batch_vars, inc_vars, lsa_vars, ext_vars>>

----------------------------------------------------------------------------
(* local_2d_halo_exchange.  A 2D tensor is a record: nh x nw blocks of     *)
(* rows x cols entries, a[hb][wb][r][c].                                   *)

(* key of the pixel at global (row, col) of an image of the given width    *)
KeyOf2(row, col, width) == row * width + col + 1

blocks_2d(nhb, h, nwb, w) ==
  [nh |-> Blocks(nhb), nw |-> Blocks(nwb), rows |-> h, cols |-> w,
   a |-> [hb \in 0..(Blocks(nhb) - 1) |-> [wb \in 0..(Blocks(nwb) - 1) |->
            [r \in 0..(h - 1) |-> [c \in 0..(w - 1) |->
               KeyOf2(hb * h + r, wb * w + c, Blocks(nwb) * w)]]]]]

(* mtf.left_halo_exchange / mtf.halo_exchange along one axis of a 2D       *)
(* tensor: lo entries borrowed from the blocks before, hi from the blocks  *)
(* after, zero-filled outside the image.                                   *)
exchange_2d(T, axis, lo, hi) ==
  IF axis = "h"
  THEN [T EXCEPT !.rows = T.rows + lo + hi,
         !.a = [hb \in 0..(T.nh - 1) |-> [wb \in 0..(T.nw - 1) |->
                  [r \in 0..(T.rows + lo + hi - 1) |-> [c \in 0..(T.cols - 1) |->
                     LET g == hb * T.rows - lo + r
                     IN  IF g < 0 \/ g >= T.nh * T.rows THEN 0
                         ELSE T.a[g \div T.rows][wb][g % T.rows][c]]]]]]
  ELSE [T EXCEPT !.cols = T.cols + lo + hi,
         !.a = [hb \in 0..(T.nh - 1) |-> [wb \in 0..(T.nw - 1) |->
                  [r \in 0..(T.rows - 1) |-> [c \in 0..(T.cols + lo + hi - 1) |->
                     LET g == wb * T.cols - lo + c
                     IN  IF g < 0 \/ g >= T.nw * T.cols THEN 0
                         ELSE T.a[hb][g \div T.cols][r][g % T.cols]]]]]]

left_halo_exchange_2d(T, axis, halo_size) == exchange_2d(T, axis, halo_size, 0)

halo_exchange_2d(T, axis, halo_size) == exchange_2d(T, axis, halo_size, halo_size)

(* mtf.pad along one axis of a 2D tensor                                   *)
pad_2d(T, axis, left, right) ==
  IF axis = "h"
  THEN [T EXCEPT !.rows = left + T.rows + right,
         !.a = [hb \in 0..(T.nh - 1) |-> [wb \in 0..(T.nw - 1) |->
                  [r \in 0..(left + T.rows + right - 1) |-> [c \in 0..(T.cols - 1) |->
                     IF r < left \/ r >= left + T.rows THEN 0
                     ELSE T.a[hb][wb][r - left][c]]]]]]
  ELSE [T EXCEPT !.cols = left + T.cols + right,
         !.a = [hb \in 0..(T.nh - 1) |-> [wb \in 0..(T.nw - 1) |->
                  [r \in 0..(T.rows - 1) |-> [c \in 0..(left + T.cols + right - 1) |->
                     IF c < left \/ c >= left + T.cols THEN 0
                     ELSE T.a[hb][wb][r][c - left]]]]]]

(* halo_2d_axis whose mask_right fallback pads on the right *)
halo_2d_axis_padright(T, axis, blocks_dim, halo_size, mr) ==
  IF halo_size > 0
  THEN IF blocks_dim /= None
       THEN IF mr THEN left_halo_exchange_2d(T, axis, halo_size)
            ELSE halo_exchange_2d(T, axis, halo_size)
       ELSE IF mr THEN pad_2d(T, axis, None, halo_size)
            ELSE pad_2d(T, axis, halo_size, halo_size)
  ELSE T

(* One iteration of the loop over (blocks_dim, block_size_dim, halo_size)  *)
halo_2d_axis(T, axis, blocks_dim, halo_size, mr) ==
  IF halo_size > 0
  THEN IF blocks_dim /= None
       THEN IF mr THEN left_halo_exchange_2d(T, axis, halo_size)
            ELSE halo_exchange_2d(T, axis, halo_size)
       ELSE IF mr THEN pad_2d(T, axis, halo_size, None)
            ELSE pad_2d(T, axis, halo_size, halo_size)
  ELSE T

local_2d_halo_exchange(kk, vv, nhb, h, nwb, w, mr) ==
  [k |-> halo_2d_axis(halo_2d_axis(kk, "h", nhb, h, mr), "w", nwb, w, mr),
   v |-> halo_2d_axis(halo_2d_axis(vv, "h", nhb, h, mr), "w", nwb, w, mr)]

call_local_2d_halo_exchange ==
  /\ halo.op = "none"
  /\ \E nhb \in {None} \cup 1..MaxBlocks2d, nwb \in {None} \cup 1..MaxBlocks2d,
        h \in 1..MaxBlockSize2d, w \in 1..MaxBlockSize2d, mr \in BOOLEAN :
       LET r == local_2d_halo_exchange(blocks_2d(nhb, h, nwb, w),
                                       blocks_2d(nhb, h, nwb, w),
                                       nhb, h, nwb, w, mr)
       IN  halo' = [NoHalo EXCEPT !.op = "local_2d", !.num_h_blocks = nhb,
                                  !.h_dim = h, !.num_w_blocks = nwb,
                                  !.w_dim = w, !.mask_right = mr,
                                  !.k = r.k, !.v = r.v]
  /\ UNCHANGED <<cfg_vars, batch_vars, inc_vars, lsa_vars, ext_vars>>

----------------------------------------------------------------------------
(* SelfAttention.compute_bias and the non-incremental branch of            *)
(* LocalSelfAttention.call.  An optional value (a bound, a priority        *)
(* tensor) is a set: {} is Python's None, {x} is the value x.              *)

(* Context of a fully autoregressive model over a [length] axis:           *)
(* position = range(length), read and write priority = position.           *)
context_position(n) == [p \in 0..(n - 1) |-> p]

context_priority(n) == {context_position(n)}

(* min_relative_position one step too far back *)
lsa_min_relative_position_wide(r) == {0 - r}

(* LocalSelfAttention.min_relative_position                                *)
lsa_min_relative_position(r) == {1 - r}

(* LocalSelfAttention.max_relative_position                                *)
lsa_max_relative_position(r, fully_autoregressive) ==
  IF fully_autoregressive THEN {} ELSE {r}

(* The number of visibility biases of compute_bias that hide memory        *)
(* position m from query position q: relative position below the minimum,  *)
(* above the maximum, write priority above read priority.                  *)
visibility_bias(q, m, position, minrp, maxrp, read_priority, write_priority) ==
  LET relative_position == position[m] - position[q]
      one(S) == IF S = {} THEN 0 ELSE 1
  IN  one({b \in minrp : ~(relative_position >= b)})
      + one({b \in maxrp : ~(relative_position <= b)})
      + one({rp \in read_priority :
               \E wp \in write_priority : ~(rp[q] >= wp[m])})

(* The bias tensor [length, memory_length] of compute_bias without         *)
(* relative attention and without sequence ids.                            *)
compute_bias_mask(n, minrp, maxrp, read_priority, write_priority) ==
  [q \in 0..(n - 1) |->
     [m \in 0..(n - 1) |->
        visibility_bias(q, m, context_position(n), minrp, maxrp,
                        read_priority, write_priority)]]

(* context.length_dim.size <= max(256, radius * 4)                         *)
nothing_fancy(n, r) == n <= max(FullAttentionBound, r * 4)

(* "nothing fancy - just do full attention and mask": the output row of    *)
(* every query position of a [length] sequence.                            *)
LocalSelfAttention_full(n, r, fully_autoregressive, ids) ==
  LET vv   == [m \in 0..(n - 1) |-> KeyOf(m)]
      bias == compute_bias_mask(n, lsa_min_relative_position(r),
                                lsa_max_relative_position(r, fully_autoregressive),
                                context_priority(n), context_priority(n))
  IN  [q \in 0..(n - 1) |-> dot_product_attention(vv, bias[q], ids)]

----------------------------------------------------------------------------
(* _relative_position_bucket                                               *)

abs(n) == IF n < 0 THEN 0 - n ELSE n

RECURSIVE pow(_, _)
pow(b, e) == IF e = 0 THEN 1 ELSE b * pow(b, e - 1)

(* num_buckets //= 2 when bidirectional                                    *)
half_buckets(num_buckets, bidirectional) ==
  IF bidirectional THEN num_buckets \div 2 ELSE num_buckets

(* max_exact = num_buckets // 2, after the halving                         *)
max_exact_of(num_buckets, bidirectional) ==
  half_buckets(num_buckets, bidirectional) \div 2

(* ret += to_int32(less(n, 0)) * num_buckets, for n = -relative_position   *)
sign_offset(n, nb, bidirectional) == IF bidirectional /\ n < 0 THEN nb ELSE 0

(* a magnitude that ignores the direction in both modes *)
magnitude_abs(n, bidirectional) == abs(n)

(* n = abs(n) when bidirectional, n = maximum(n, 0) otherwise              *)
magnitude(n, bidirectional) == IF bidirectional THEN abs(n) ELSE max(n, 0)

(* to_int32(log(n / max_exact) / log(max_distance / max_exact) * span) in  *)
(* exact arithmetic, for max_exact <= n: the largest j with                *)
(* (max_distance / max_exact)^j <= (n / max_exact)^span.  From             *)
(* n = max_distance on the quotient of the logarithms is at least 1 and    *)
(* the result at least span, which the minimum below cuts back: span       *)
(* stands for all of these.                                                *)
log_steps(n, me, md, span) ==
  IF n >= md THEN span
  ELSE CHOOSE j \in 0..(span - 1) :
         /\ pow(md, j) * pow(me, span - j) <= pow(n, span)
         /\ j = span - 1 \/ pow(md, j + 1) * pow(me, span - j - 1) > pow(n, span)

(* The magnitudes at which the real value of that product is a whole       *)
(* number other than 0: floating point may land just below it.             *)
rounding_ties(me, md, span) ==
  {n \in (me + 1)..(md - 1) :
     \E j \in 1..(span - 1) : pow(md, j) * pow(me, span - j) = pow(n, span)}

(* val_if_large = minimum(max_exact + to_int32(...), num_buckets - 1);     *)
(* down is the set of magnitudes whose product rounds below the integer.   *)
val_if_large(n, me, md, nb, down) ==
  LET steps == log_steps(n, me, md, nb - me) - (IF n \in down THEN 1 ELSE 0)
  IN  IF me + steps <= nb - 1 THEN me + steps ELSE nb - 1

(* The bucket of one relative position.                                    *)
relative_position_bucket(rp, bidirectional, num_buckets, max_distance, down) ==
  LET nb == half_buckets(num_buckets, bidirectional)
      me == max_exact_of(num_buckets, bidirectional)
      n  == magnitude(0 - rp, bidirectional)
  IN  sign_offset(0 - rp, nb, bidirectional)
      + (IF n < me THEN n ELSE val_if_large(n, me, max_distance, nb, down))

(* The relative positions of the tensor the function is applied to.        *)
RelativePositions(md) == (0 - (md + MaxBeyond))..(md + MaxBeyond)

NoBucket == [op |-> "none", bidirectional |-> FALSE, num_buckets |-> 0,
             max_distance |-> 0, raised |-> "none", ret |-> <<>>]

(* One call on the tensor of all relative positions.  max_exact = 0 makes  *)
(* max_distance / max_exact raise before any bucket is built.              *)
call_relative_position_bucket ==
  /\ bucket.op = "none"
  /\ bucket.num_buckets > 0
  /\ LET b  == bucket.bidirectional
         md == bucket.max_distance
         nb == half_buckets(bucket.num_buckets, b)
         me == max_exact_of(bucket.num_buckets, b)
     IN  IF me = 0
         THEN bucket' = [bucket EXCEPT !.op = "called",
                                       !.raised = "ZeroDivisionError"]
         ELSE \E down \in SUBSET rounding_ties(me, md, nb - me) :
                bucket' = [bucket EXCEPT
                  !.op = "called",
                  !.ret = [rp \in RelativePositions(md) |->
                             relative_position_bucket(
                               rp, b, bucket.num_buckets, md, down)]]
  /\ UNCHANGED <<cfg_vars, batch_vars, inc_vars, lsa_vars, halo,
                 call, cache, bias_log, new_vars>>

----------------------------------------------------------------------------
(* Graph-building calls that can refuse their arguments: attention_params, *)
(* the four *_with_blocks convolutions and multihead_attention.  call.ops  *)
(* lists what the call has constructed, in order; call.raised is the       *)
(* exception that ended it, or "none".                                     *)

Op(name, axis, size, padding) ==
  [op |-> name, axis |-> axis, size |-> size, padding |-> padding]

NoCall == [fn |-> "none", num_heads |-> 0, num_memory_heads |-> 0,
           filter_size |-> <<>>, padding |-> "SAME", blocks |-> <<>>,
           query_batch |-> <<>>, io_channels |-> 0, memory |-> {},
           raised |-> "none", ops |-> <<>>, params |-> {},
           strides |-> 0, x_shape |-> <<>>, padded_shape |-> <<>>,
           out_shape |-> <<>>, train |-> FALSE, dropout_rate |-> 0,
           attention_kwargs_before |-> <<>>, attention_kwargs |-> <<>>,
           kwargs |-> <<>>,
           attn |-> [logits |-> <<>>, mask |-> {}, dropout |-> 0,
                     kept |-> <<>>, extra_logit |-> {}, weights |-> <<>>,
                     total |-> 0, num |-> 0, den |-> 0]]

(* attention_params: the heads dimensions it chooses (sizes only; None is  *)
(* the empty set), or the error.                                           *)
attention_params(num_heads, num_memory_heads) ==
  IF num_heads = 1
  THEN [raised |-> "none",
        params |-> {[query_heads_dims |-> {}, memory_heads_dims |-> {}]}]
  ELSE IF num_memory_heads = 0
  THEN [raised |-> "none",
        params |-> {[query_heads_dims |-> {<<num_heads>>},
                     memory_heads_dims |-> {<<num_heads>>}]}]
  ELSE IF num_memory_heads = 1
  THEN [raised |-> "none",
        params |-> {[query_heads_dims |-> {<<num_heads>>},
                     memory_heads_dims |-> {}]}]
  ELSE IF num_heads % num_memory_heads /= 0
  THEN [raised |-> "ValueError", params |-> {}]
  ELSE [raised |-> "none",
        params |-> {[query_heads_dims |->
                       {<<num_memory_heads, num_heads \div num_memory_heads>>},
                     memory_heads_dims |-> {<<num_memory_heads>>}]}]

call_attention_params ==
  /\ call.fn = "none"
  /\ \E nh \in 1..MaxHeads, nm \in 0..MaxHeads :
       LET r == attention_params(nh, nm)
       IN  call' = [call EXCEPT
             !.fn = "attention_params", !.num_heads = nh,
             !.num_memory_heads = nm, !.raised = r.raised,
             !.params = r.params,
             !.ops = IF r.raised = "none"
                     THEN <<Op("AttentionParams", 0, 0, "")>> ELSE <<>>]
  /\ UNCHANGED <<cfg_vars, batch_vars, inc_vars, lsa_vars, halo,
                 bucket, cache, bias_log, new_vars>>

(* The blocked convolutions.                                               *)
ConvFns == {"conv2d_with_blocks", "conv2d_transpose_with_blocks",
            "conv3d_with_blocks", "conv3d_transpose_with_blocks"}

transposed(fn) ==
  fn \in {"conv2d_transpose_with_blocks", "conv3d_transpose_with_blocks"}

spatial_dims(fn) ==
  IF fn \in {"conv2d_with_blocks", "conv2d_transpose_with_blocks"} THEN 2 ELSE 3

(* the plain convolution a blocked one ends in *)
plain_conv(fn) ==
  CASE fn = "conv2d_with_blocks" -> "conv2d"
    [] fn = "conv2d_transpose_with_blocks" -> "conv2d_transpose"
    [] fn = "conv3d_with_blocks" -> "conv3d"
    [] fn = "conv3d_transpose_with_blocks" -> "conv3d_transpose"

(* asserts that look at the two blocked axes only *)
parity_asserts_blocked_only(fn, filter_size) ==
  \A i \in 1..2 : filter_size[i] % 2 = (IF transposed(fn) THEN 0 ELSE 1)

(* assert filter_size[i] % 2 == 1 (== 0 when transposed), every axis       *)
parity_asserts(fn, filter_size) ==
  \A i \in 1..spatial_dims(fn) :
    filter_size[i] % 2 = (IF transposed(fn) THEN 0 ELSE 1)

(* a padding check that lets every mode through *)
padding_supported_any(padding) == TRUE

(* if padding != "SAME": raise NotImplementedError                         *)
padding_supported(padding) == padding = "SAME"

(* a halo as wide as the filter *)
halo_size_of_full(fn, f) == f

(* filter_size[i] // 2, less one when transposed                           *)
halo_size_of(fn, f) == IF transposed(fn) THEN f \div 2 - 1 ELSE f \div 2

(* One round of the halo loop: exchange over a blocks dimension, local     *)
(* zero padding without one, nothing for an empty halo.                    *)
halo_step(fn, filter_size, blocks, i) ==
  LET halo_size == halo_size_of(fn, filter_size[i])
  IN  IF halo_size > 0
      THEN <<Op(IF blocks[i] THEN "halo_exchange" ELSE "pad", i, halo_size, "")>>
      ELSE <<>>

(* "Pad w dimension with zeros" of the 3D functions.                       *)
pad_w_dim(fn, filter_size) ==
  IF spatial_dims(fn) = 3
  THEN <<Op("pad", 3, halo_size_of(fn, filter_size[3]), "")>>
  ELSE <<>>

(* blocks[i] says whether the i-th blocks dimension was given (h, w for    *)
(* 2D; d, h for 3D).                                                       *)
conv_with_blocks(fn, filter_size, padding, blocks) ==
  IF ~blocks[1] /\ ~blocks[2]
  THEN [raised |-> "none", ops |-> <<Op(plain_conv(fn), 0, 0, padding)>>]
  ELSE IF ~parity_asserts(fn, filter_size)
  THEN [raised |-> "AssertionError", ops |-> <<>>]
  ELSE IF ~padding_supported(padding)
  THEN [raised |-> "NotImplementedError", ops |-> <<>>]
  ELSE [raised |-> "none",
        ops |-> halo_step(fn, filter_size, blocks, 1)
                \o halo_step(fn, filter_size, blocks, 2)
                \o pad_w_dim(fn, filter_size)
                \o <<Op(plain_conv(fn), 0, 0, "VALID")>>]

(* Sum of the sizes of the halo_exchange / pad operations on one axis.     *)
RECURSIVE extension(_, _)
extension(ops, axis) ==
  IF ops = <<>> THEN 0
  ELSE (IF Head(ops).op \in {"halo_exchange", "pad"} /\ Head(ops).axis = axis
        THEN Head(ops).size ELSE 0) + extension(Tail(ops), axis)

(* mtf.halo_exchange and mtf.pad(x, [h, h]) both add h entries on each     *)
(* side of the block.                                                      *)
extended_size(n, ops, axis) == n + 2 * extension(ops, axis)

(* Output size of the convolution operations along one spatial axis; 0     *)
(* when a VALID window does not fit.                                       *)
conv_output_size(fn, n, f, stride, padding) ==
  IF transposed(fn)
  THEN IF padding = "SAME" THEN n * stride ELSE n * stride + max(f - stride, 0)
  ELSE IF padding = "SAME" THEN (n + stride - 1) \div stride
  ELSE IF n < f THEN 0
  ELSE (n - f) \div stride + 1

(* padding handed to the final convolution                                 *)
final_padding(ops) == ops[Len(ops)].padding

(* Shapes of a call that raised nothing: the block as it enters the final  *)
(* convolution and as it leaves it (spatial axes only).                    *)
conv_shapes(fn, filter_size, strides, x_shape, ops) ==
  LET padded == [i \in 1..spatial_dims(fn) |-> extended_size(x_shape[i], ops, i)]
  IN  [padded_shape |-> padded,
       out_shape |-> [i \in 1..spatial_dims(fn) |->
                        conv_output_size(fn, padded[i], filter_size[i], strides,
                                         final_padding(ops))]]

call_conv_with_blocks ==
  /\ call.fn = "none"
  /\ \E fn \in ConvFns, padding \in {"SAME", "VALID"},
        blocks \in [1..2 -> BOOLEAN], strides \in 1..MaxStride :
       \E filter_size \in [1..spatial_dims(fn) -> 1..MaxFilter],
          x_shape \in [1..spatial_dims(fn) -> 1..MaxConvBlock] :
         LET r == conv_with_blocks(fn, filter_size, padding, blocks)
             sh == IF r.raised = "none"
                   THEN conv_shapes(fn, filter_size, strides, x_shape, r.ops)
                   ELSE [padded_shape |-> <<>>, out_shape |-> <<>>]
         IN  call' = [call EXCEPT
               !.fn = fn, !.filter_size = filter_size, !.padding = padding,
               !.blocks = blocks, !.raised = r.raised, !.ops = r.ops,
               !.strides = strides, !.x_shape = x_shape,
               !.padded_shape = sh.padded_shape, !.out_shape = sh.out_shape]
  /\ UNCHANGED <<cfg_vars, batch_vars, inc_vars, lsa_vars, halo,
                 bucket, cache, bias_log, new_vars>>

(* multihead_attention.  A tensor is its batch dimensions and its channel  *)
(* dimension; memory is {} for memory_antecedent=None.                     *)

(* a check of the batch dimensions alone *)
memory_mismatch_batch_only(batch_dims, io_channels, memory_batch_dims, memory_channels) ==
  IF memory_batch_dims /= batch_dims THEN "memory batch must equal query batch"
  ELSE ""

(* the two ValueError checks, in their order                               *)
memory_mismatch(batch_dims, io_channels, memory_batch_dims, memory_channels) ==
  IF memory_batch_dims /= batch_dims THEN "memory batch must equal query batch"
  ELSE IF memory_channels /= io_channels
  THEN "memory channels must equal query channels"
  ELSE ""

multihead_attention(batch_dims, io_channels, memory) ==
  LET vars_ops == <<Op("get_variable", 0, 0, "qkvo"), Op("unstack", 0, 0, "qkvo")>>
      renamed  == IF memory = {}
                  THEN <<Op("rename_dimension", 0, 0, "memory_length")>>
                  ELSE <<>>
      mem      == IF memory = {}
                  THEN [batch |-> batch_dims, channels |-> io_channels]
                  ELSE CHOOSE m \in memory : TRUE
  IN  IF memory_mismatch(batch_dims, io_channels, mem.batch, mem.channels) /= ""
      THEN [raised |-> "ValueError", ops |-> vars_ops \o renamed]
      ELSE [raised |-> "none",
            ops |-> vars_ops \o renamed
                    \o <<Op("einsum", 0, 0, "q"), Op("einsum", 0, 0, "k"),
                         Op("einsum", 0, 0, "v"),
                         Op("dot_product_attention", 0, 0, ""),
                         Op("einsum", 0, 0, "o")>>]

BatchShapes ==
  {<<a>> : a \in 1..MaxBatch} \cup {<<a, b>> : a \in 1..MaxBatch, b \in 1..MaxBatch}

call_multihead_attention ==
  /\ call.fn = "none"
  /\ \E batch_dims \in BatchShapes, io_channels \in 1..MaxChannels,
        memory \in {{}} \cup {{[batch |-> b, channels |-> c]} :
                               b \in BatchShapes, c \in 1..MaxChannels} :
       LET r == multihead_attention(batch_dims, io_channels, memory)
       IN  call' = [call EXCEPT
             !.fn = "multihead_attention", !.query_batch = batch_dims,
             !.io_channels = io_channels, !.memory = memory,
             !.raised = r.raised, !.ops = r.ops]
  /\ UNCHANGED <<cfg_vars, batch_vars, inc_vars, lsa_vars, halo,
                 bucket, cache, bias_log, new_vars>>

----------------------------------------------------------------------------
(* SelfAttention.compute_bias and context.cache.  A layer is its class,    *)
(* radius (LocalSelfAttention) and relative-attention settings; the        *)
(* relative_attention_type None is written "None".  A bias is {} for None  *)
(* or {b}, b recording what the tensor was built from.                     *)

(* values of relative_attention_num_buckets: the default and a smaller one *)
BucketCounts == {DefaultBuckets \div 2, DefaultBuckets}

LayerConfigs ==
  {[kind |-> kd, radius |-> r, relative_attention_type |-> ty,
    num_heads |-> nh, relative_attention_num_buckets |-> nb] :
     kd \in {"SelfAttention", "LocalSelfAttention"}, r \in {LayerRadius},
     ty \in {"None", "bias", "bias_shared", "contextual"},
     nh \in 1..MaxLayerHeads, nb \in BucketCounts}

(* self.min_relative_position(context)                                     *)
min_relative_position(layer) ==
  IF layer.kind = "LocalSelfAttention"
  THEN lsa_min_relative_position(layer.radius) ELSE {}

(* self.max_relative_position(context)                                     *)
max_relative_position(layer, fully_autoregressive) ==
  IF layer.kind = "LocalSelfAttention"
  THEN lsa_max_relative_position(layer.radius, fully_autoregressive) ELSE {}

can_cache(layer) ==
  \/ layer.relative_attention_type = "None"
  \/ layer.relative_attention_type = "bias_shared"

cache_key(layer, fully_autoregressive) ==
  <<"self_attention_mask", min_relative_position(layer),
    max_relative_position(layer, fully_autoregressive),
    layer.relative_attention_type, layer.num_heads>>

(* a lookup that never finds the key *)
cache_hit_never(key, c) == FALSE

(* cache_key in context.cache                                              *)
cache_hit(key, c) == key \in DOMAIN c

(* context.cache[cache_key] = ret                                          *)
cache_store(c, key, ret) ==
  [kk \in DOMAIN c \cup {key} |-> IF kk = key THEN ret ELSE c[kk]]

(* The bias built on a miss: add_n of the visibility biases and, with      *)
(* relative attention, of the gathered values (values names the variable   *)
(* or dense layer created for them); None when there is nothing to add.    *)
build_bias(layer, fully_autoregressive, has_priority, values) ==
  LET minrp == min_relative_position(layer)
      maxrp == max_relative_position(layer, fully_autoregressive)
      rel   == IF layer.relative_attention_type = "None" THEN {}
               ELSE {[type |-> layer.relative_attention_type,
                      buckets |-> layer.relative_attention_num_buckets,
                      heads |-> layer.num_heads,
                      bidirectional |-> ~fully_autoregressive,
                      values |-> values]}
  IN  IF minrp = {} /\ maxrp = {} /\ ~has_priority /\ rel = {} THEN {}
      ELSE {[min |-> minrp, max |-> maxrp, priority |-> has_priority,
             relative |-> rel]}

NoBiasLog == [fully_autoregressive |-> TRUE, has_priority |-> TRUE,
              calls |-> 0, computed |-> 0, variables |-> 0,
              key |-> {}, hit |-> FALSE, ret |-> {}, layer |-> {}]

(* One compute_bias call by some layer on the context.                     *)
compute_bias ==
  /\ bias_log.calls < MaxCalls
  /\ \E layer \in LayerConfigs :
       LET fa  == bias_log.fully_autoregressive
           key == cache_key(layer, fa)
       IN  IF can_cache(layer) /\ cache_hit(key, cache)
           THEN /\ bias_log' = [bias_log EXCEPT !.calls = @ + 1, !.key = {key},
                                                !.hit = TRUE, !.ret = cache[key],
                                                !.layer = {layer}]
                /\ cache' = cache
           ELSE LET nv  == bias_log.variables
                            + (IF layer.relative_attention_type = "None"
                               THEN 0 ELSE 1)
                    ret == build_bias(layer, fa, bias_log.has_priority, nv)
                IN  /\ bias_log' = [bias_log EXCEPT
                         !.calls = @ + 1, !.computed = @ + 1,
                         !.variables = nv,
                         !.key = IF can_cache(layer) THEN {key} ELSE {},
                         !.hit = FALSE, !.ret = ret, !.layer = {layer}]
                    /\ cache' = IF can_cache(layer)
                                THEN cache_store(cache, key, ret) ELSE cache
  /\ UNCHANGED <<cfg_vars, batch_vars, inc_vars, lsa_vars, halo, bucket, call, new_vars>>

----------------------------------------------------------------------------
(* The decode-state protocol of SelfAttention.call and                     *)
(* LocalSelfAttention.call: first_part, incremental and the other modes.   *)
(* dec.size is the length of the memory axis of the states: the sequence   *)
(* length for SelfAttention, the radius for LocalSelfAttention.            *)

RECURSIVE SumTo(_, _)
(* reduced sum of f over the positions 0..(n - 1)                          *)
SumTo(f, n) == IF n = 0 THEN 0 ELSE f[n - 1] + SumTo(f, n - 1)

(* mtf.one_hot(index, dim): 1 at the index, 0 elsewhere; an index outside  *)
(* the dimension gives the all-zero vector.                                *)
one_hot(index, n) == [s \in 0..(n - 1) |-> IF s = index THEN 1 ELSE 0]

(* [kv] if self.shared_kv else [k, v]                                      *)
new_states_of(skv, kw, vw) == IF skv THEN <<kw>> ELSE <<kw, vw>>

(* the argument of context.get_states                                      *)
states_read(skv) == IF skv THEN 1 ELSE 2

(* a blend that wraps the position around the memory length *)
one_hot_blend_mod(old, new, pos, n) ==
  [s \in 0..(n - 1) |-> IF s = pos % n THEN new ELSE old[s]]

(* old * inv_one_hot + new * one_hot                                       *)
one_hot_blend(old, new, pos, n) ==
  [s \in 0..(n - 1) |-> old[s] * (1 - one_hot(pos, n)[s]) + new * one_hot(pos, n)[s]]

(* select_recent without its lower bound *)
select_recent_nolower(pos, w, r, initial_position) ==
  IF pos % r = w /\ pos < initial_position THEN 1 ELSE 0

(* select_recent = (pos mod radius == window_pos) * (pos <                 *)
(* initial_position) * (pos >= initial_position - radius)                  *)
select_recent(pos, w, r, initial_position) ==
  IF pos % r = w /\ pos < initial_position /\ pos >= initial_position - r
  THEN 1 ELSE 0

(* k_state = einsum([k, select_recent]) reduced over the length            *)
window_state(len, r, initial_position) ==
  [w \in 0..(r - 1) |->
     SumTo([pos \in 0..(len - 1) |->
              KeyOf(pos) * select_recent(pos, w, r, initial_position)], len)]

(* first_part states that always hold a separate v_state *)
lsa_first_part_states_both(skv, len, r, initial_position) ==
  <<window_state(len, r, initial_position), window_state(len, r, initial_position)>>

(* context.new_states.append(k_state), and v_state unless shared_kv        *)
lsa_first_part_states(skv, len, r, initial_position) ==
  <<window_state(len, r, initial_position)>>
  \o (IF ~skv THEN <<window_state(len, r, initial_position)>> ELSE <<>>)

NoDec == [kind |-> "none", shared_kv |-> TRUE, size |-> 1, length |-> 1,
          mode |-> "none", position |-> 0, states |-> <<>>,
          n_read |-> 0, n_recorded |-> 0, raised |-> "none"]

(* how far the decode loop is run *)
decode_limit(d) ==
  IF d.kind = "SelfAttention" THEN d.size + MaxBeyond ELSE d.length

(* A call in first_part mode on a prefix of initial_position tokens.       *)
layer_call_first_part ==
  /\ dec.kind /= "none"
  /\ dec.mode = "none"
  /\ \E initial_position \in 0..dec.length :
       LET full == projected(dec.length)
           new  == IF dec.kind = "SelfAttention"
                   THEN new_states_of(dec.shared_kv, full, full)
                   ELSE lsa_first_part_states(dec.shared_kv, dec.length,
                                              dec.size, initial_position)
       IN  dec' = [dec EXCEPT !.mode = "first_part",
                              !.position = initial_position,
                              !.states = record_new_states(new, <<>>),
                              !.n_read = 0, !.n_recorded = Len(new)]
  /\ UNCHANGED <<cfg_vars, batch_vars, inc_vars, lsa_vars, halo,
                 bucket, call, cache, bias_log, msa, search>>

(* A call in incremental mode at context.position.                         *)
layer_call_incremental ==
  /\ dec.kind /= "none"
  /\ dec.mode \in {"none", "first_part", "incremental"}
  /\ dec.position < decode_limit(dec)
  /\ LET pos == dec.position
         n   == states_read(dec.shared_kv)
         old == get_states(dec, n)
         upd(i) == IF dec.kind = "SelfAttention"
                   THEN one_hot_blend(old[i], KeyOf(pos), pos, dec.size)
                   ELSE lsa_window(KeyOf(pos), old[i], pos, dec.size)
         new == new_states_of(dec.shared_kv, upd(1), upd(n))
     IN  dec' = [dec EXCEPT !.mode = "incremental",
                            !.position = pos + 1,
                            !.states = record_new_states(new, <<>>),
                            !.n_read = n, !.n_recorded = Len(new)]
  /\ UNCHANGED <<cfg_vars, batch_vars, inc_vars, lsa_vars, halo,
                 bucket, call, cache, bias_log, msa, search>>

(* A call in any other mode (training, evaluation): no states.             *)
layer_call_other ==
  /\ dec.kind /= "none"
  /\ dec.mode = "none"
  /\ dec' = [dec EXCEPT !.mode = "train", !.n_read = 0, !.n_recorded = 0]
  /\ UNCHANGED <<cfg_vars, batch_vars, inc_vars, lsa_vars, halo,
                 bucket, call, cache, bias_log, msa, search>>

----------------------------------------------------------------------------
(* multihead_self_attention_incremental and attention_mask_autoregressive  *)

(* cast(less(query_pos, memory_pos)) * -1e9                                *)
attention_mask_autoregressive(query_pos, memory_pos) ==
  IF query_pos < memory_pos THEN 1 ELSE 0

(* a mask that also hides the slot of the current step *)
incremental_mask_strict(step, n) ==
  [i \in 0..(n - 1) |-> IF i >= step THEN 1 ELSE 0]

(* cast(greater(range(memory_length), step_num)) * -1e9                    *)
incremental_mask(step, n) ==
  [i \in 0..(n - 1) |-> IF i > step THEN 1 ELSE 0]

(* prev + multiply(new, one_hot(step_num, memory_length))                  *)
one_hot_add(prev, new, step, n) ==
  [s \in 0..(n - 1) |-> prev[s] + new * one_hot(step, n)[s]]

NoMsa == [memory_length |-> 0, step_num |-> 0, prev_k |-> <<>>,
          prev_v |-> <<>>, mask |-> <<>>, o |-> <<>>, raised |-> "none"]

multihead_self_attention_incremental ==
  /\ msa.memory_length > 0
  /\ msa.step_num < msa.memory_length + MaxBeyond
  /\ LET n  == msa.memory_length
         t  == msa.step_num
         nk == one_hot_add(msa.prev_k, KeyOf(t), t, n)
         nv == one_hot_add(msa.prev_v, KeyOf(t), t, n)
         m  == incremental_mask(t, n)
     IN  msa' = [msa EXCEPT !.step_num = t + 1, !.prev_k = nk, !.prev_v = nv,
                            !.mask = m,
                            !.o = dot_product_attention(nv, m, 0..(n + MaxBeyond))]
  /\ UNCHANGED <<cfg_vars, batch_vars, inc_vars, lsa_vars, halo,
                 bucket, call, cache, bias_log, dec, search>>

NoSearch == [lps |-> 0, window_size |-> 0, block_length |-> 0, phase |-> "none"]

RestNew == dec = NoDec /\ msa = NoMsa /\ search = NoSearch

----------------------------------------------------------------------------
(* "Choose a suitable block size", one loop iteration at a time.           *)

(* a loop body that leaves block_length as it is *)
next_block_length_stuck(bl) == bl

(* block_length -= 1                                                       *)
next_block_length(bl) == bl - 1

(* block_length = max(window_size, 128)                                    *)
search_start ==
  /\ search.phase = "init"
  /\ search' = [search EXCEPT !.phase = "loop",
                              !.block_length = block_length_start(search.window_size)]
  /\ UNCHANGED <<cfg_vars, batch_vars, inc_vars, lsa_vars, halo,
                 bucket, call, cache, bias_log, dec, msa>>

(* while length_per_split % block_length != 0: one more iteration; the     *)
(* modulo raises ZeroDivisionError should block_length ever be 0.          *)
search_step ==
  /\ search.phase = "loop"
  /\ IF search.block_length = 0
     THEN search' = [search EXCEPT !.phase = "error"]
     ELSE /\ search.lps % search.block_length /= 0
          /\ search' = [search EXCEPT
                          !.block_length = next_block_length(search.block_length)]
  /\ UNCHANGED <<cfg_vars, batch_vars, inc_vars, lsa_vars, halo,
                 bucket, call, cache, bias_log, dec, msa>>

(* the loop condition is false: the search is over                         *)
search_exit ==
  /\ search.phase = "loop"
  /\ search.block_length /= 0
  /\ search.lps % search.block_length = 0
  /\ search' = [search EXCEPT !.phase = "done"]
  /\ UNCHANGED <<cfg_vars, batch_vars, inc_vars, lsa_vars, halo,
                 bucket, call, cache, bias_log, dec, msa>>

----------------------------------------------------------------------------
(* Dropout on attention weights.  A dropout rate is written in percent; a  *)
(* Python dict is a function from its keys; the heap maps object           *)
(* references to dicts, reference 1 being self.attention_kwargs.           *)

DropoutRates == {0, 10, 50}

StoredKwargs ==
  {<<>>, "dropout_broadcast_dims" :> "heads", "dropout_rate" :> 50,
   ("dropout_rate" :> 10) @@ ("dropout_broadcast_dims" :> "heads")}

(* an assignment that hands back the same object *)
copy_copy_alias(heap, ref) == [heap |-> heap, ref |-> ref]

(* copy.copy(d): a new dict with the entries of d                          *)
copy_copy(heap, ref) ==
  LET new == Cardinality(DOMAIN heap) + 1
  IN  [heap |-> (new :> heap[ref]) @@ heap, ref |-> new]

(* d[key] = value                                                          *)
setitem(heap, ref, key, value) ==
  [heap EXCEPT ![ref] = (key :> value) @@ heap[ref]]

attention_kwargs_from_context(heap, dropout_rate, train) ==
  LET c  == copy_copy(heap, 1)
      h1 == setitem(c.heap, c.ref, "dropout_rate",
                    IF train THEN dropout_rate ELSE 0)
      h2 == IF "dropout_broadcast_dims" \notin DOMAIN h1[c.ref]
            THEN setitem(h1, c.ref, "dropout_broadcast_dims", "length")
            ELSE h1
  IN  [heap |-> h2, ref |-> c.ref]

(* The operations dot_product_attention builds.                            *)
dot_product_attention_ops(has_mask, dropout) ==
  <<Op("einsum", 0, 0, "logits")>>
  \o (IF has_mask THEN <<Op("add", 0, 0, "mask")>> ELSE <<>>)
  \o <<Op("softmax", 0, 0, "")>>
  \o (IF dropout /= 0 THEN <<Op("dropout", 0, 100 - dropout, "")>> ELSE <<>>)
  \o <<Op("einsum", 0, 0, "outputs")>>

(* attention.attention(..., **kwargs): the kernel takes its dropout from   *)
(* the dropout_rate keyword.                                               *)
attention_kernel(has_mask, kwargs) ==
  dot_product_attention_ops(has_mask, kwargs["dropout_rate"])

(* SelfAttention.call up to the attention kernel, on a context in training *)
(* or evaluation.                                                          *)
call_self_attention ==
  /\ call.fn = "none"
  /\ \E stored \in StoredKwargs, dropout_rate \in DropoutRates,
        train \in BOOLEAN, has_mask \in BOOLEAN :
       LET r == attention_kwargs_from_context(1 :> stored, dropout_rate, train)
       IN  call' = [call EXCEPT
             !.fn = "SelfAttention.call", !.train = train,
             !.dropout_rate = dropout_rate,
             !.attention_kwargs_before = stored,
             !.attention_kwargs = r.heap[1],
             !.kwargs = r.heap[r.ref],
             !.ops = attention_kernel(has_mask, r.heap[r.ref])]
  /\ UNCHANGED <<cfg_vars, batch_vars, inc_vars, lsa_vars, halo,
                 bucket, cache, bias_log, new_vars>>

----------------------------------------------------------------------------
(* dot_product_attention for one query over MaxKeys key positions.  A      *)
(* logit is a pair: bias counts the -1e9 terms added to it, logit is the   *)
(* q.k product, small against 1e9.  The value at key position j is j.      *)
(* Softmax weights are kept as integers over a common total; the           *)
(* exponential is taken to base 2, and a logit that lies a whole -1e9      *)
(* below the largest one has weight 0.                                     *)

Logits == {-MaxLogit, 0, MaxLogit}

(* a sum that leaves the mask out *)
add_mask_ignored(logits, attn_mask) ==
  [j \in DOMAIN logits |-> [bias |-> 0, logit |-> logits[j]]]

(* if mask is not None: logits += mask                                     *)
add_mask(logits, attn_mask) ==
  [j \in DOMAIN logits |->
     [bias |-> IF attn_mask = {} THEN 0 ELSE (CHOOSE m \in attn_mask : TRUE)[j],
      logit |-> logits[j]]]

RECURSIVE SumOver(_, _)
(* reduced sum of f over the positions 1..n                                *)
SumOver(f, n) == IF n = 0 THEN 0 ELSE f[n] + SumOver(f, n - 1)

(* mtf.softmax(logits, length_kv, extra_logit): exp(x - logsumexp) with    *)
(* the extra logit, if any, in the sum.                                    *)
softmax(z, extra_logit) ==
  LET n    == Len(z)
      all  == {z[j] : j \in 1..n} \cup {[bias |-> 0, logit |-> e] : e \in extra_logit}
      minb == CHOOSE b \in {x.bias : x \in all} : \A x \in all : x.bias >= b
      exp(x) == IF x.bias > minb THEN 0 ELSE pow(2, x.logit + MaxLogit)
      w    == [j \in 1..n |-> exp(z[j])]
  IN  [weights |-> w,
       total |-> SumOver(w, n)
                 + (IF extra_logit = {} THEN 0
                    ELSE exp([bias |-> 0, logit |-> CHOOSE e \in extra_logit : TRUE]))]

(* mtf.dropout(weights, 1.0 - dropout): every weight is dropped or scaled  *)
(* by 1 / keep_prob; rates in percent, kept says which weights survive.    *)
dropout_weights(s, rate, kept) ==
  [weights |-> [j \in DOMAIN s.weights |->
                  IF kept[j] THEN 100 * s.weights[j] ELSE 0],
   total |-> (100 - rate) * s.total]

(* The output for the query as the fraction num / den; den = 0 is NaN.     *)
dpa_outputs(logits, attn_mask, dropout, kept, extra_logit) ==
  LET s == softmax(add_mask(logits, attn_mask), extra_logit)
      d == IF dropout /= 0 THEN dropout_weights(s, dropout, kept) ELSE s
  IN  [weights |-> s.weights, total |-> s.total,
       num |-> SumOver([j \in DOMAIN d.weights |-> d.weights[j] * j], Len(logits)),
       den |-> d.total]


call_dot_product_attention ==
  /\ call.fn = "none"
  /\ \E logits \in [1..MaxKeys -> Logits],
        attn_mask \in {{}} \cup {{m} : m \in [1..MaxKeys -> 0..1]},
        dropout \in {0, 10}, extra_logit \in {{}, {0}} :
       \E kept \in IF dropout = 0 THEN {[j \in 1..MaxKeys |-> TRUE]}
                   ELSE [1..MaxKeys -> BOOLEAN] :
         LET r == dpa_outputs(logits, attn_mask, dropout, kept, extra_logit)
         IN  call' = [call EXCEPT
               !.fn = "dot_product_attention",
               !.ops = dot_product_attention_ops(attn_mask /= {}, dropout),
               !.attn = [logits |-> logits, mask |-> attn_mask, dropout |-> dropout,
                         kept |-> kept, extra_logit |-> extra_logit,
                         weights |-> r.weights, total |-> r.total,
                         num |-> r.num, den |-> r.den]]
  /\ UNCHANGED <<cfg_vars, batch_vars, inc_vars, lsa_vars, halo,
                 bucket, cache, bias_log, new_vars>>

----------------------------------------------------------------------------
(* Initial states: the arguments of the calls, zero-initialized windows.   *)

Zeros(n) == [s \in 0..(n - 1) |-> 0]

Init ==
  /\ length \in 1..MaxLength
  /\ window_size \in 1..MaxWindow
  /\ length_per_split \in {None} \cup Divisors(length)
  /\ block_length = 0
  /\ num_blocks = 0
  /\ k = <<>>
  /\ v = <<>>
  /\ mask = <<>>
  /\ o = <<>>
  /\ window_length \in 1..MaxWindow
  /\ step_num = 0
  /\ prev_k = Zeros(window_length)
  /\ prev_v = Zeros(window_length)
  /\ y = <<>>
  /\ radius \in 1..MaxWindow
  /\ shared_kv \in BOOLEAN
  /\ context = [mode |-> "incremental", position |-> 0,
                states |-> IF shared_kv THEN <<Zeros(radius)>>
                           ELSE <<Zeros(radius), Zeros(radius)>>]
  /\ lsa_o = <<>>
  /\ halo = NoHalo
  /\ bucket = NoBucket /\ call = NoCall /\ cache = <<>> /\ bias_log = NoBiasLog
  /\ RestNew

(* The calls of the decode loop and of the batch path.                     *)
Next ==
  \/ masked_local_attention_1d
  \/ masked_local_attention_1d_incremental
  \/ LocalSelfAttention_call

Spec == Init /\ [][Next]_vars

(* The halo-exchange subsystem: one batch call and any halo calls.         *)
InitHalo ==
  /\ length \in 1..MaxLength
  /\ window_size \in 1..MaxWindow
  /\ length_per_split \in {None} \cup Divisors(length)
  /\ block_length = 0
  /\ num_blocks = 0
  /\ k = <<>>
  /\ v = <<>>
  /\ mask = <<>>
  /\ o = <<>>
  /\ window_length = 1
  /\ step_num = 0
  /\ prev_k = Zeros(1)
  /\ prev_v = Zeros(1)
  /\ y = <<>>
  /\ radius = 1
  /\ shared_kv = TRUE
  /\ context = [mode |-> "incremental", position |-> 0, states |-> <<Zeros(1)>>]
  /\ lsa_o = <<>>
  /\ halo = NoHalo
  /\ bucket = NoBucket /\ call = NoCall /\ cache = <<>> /\ bias_log = NoBiasLog
  /\ RestNew

NextHalo ==
  \/ masked_local_attention_1d
  \/ call_local_1d_halo_exchange
  \/ call_local_2d_halo_exchange
  \/ local_self_attention_spatial_blocks

SpecHalo == InitHalo /\ [][NextHalo]_vars

(* The block partitioner over realistic lengths.                           *)
InitBlock ==
  /\ length \in 1..MaxBigLength
  /\ window_size \in (1..MaxWindow) \cup {MinBlockBound + d : d \in 0..MaxWindow}
  /\ length_per_split \in {None} \cup Divisors(length)
  /\ block_length = 0
  /\ num_blocks = 0
  /\ k = <<>>
  /\ v = <<>>
  /\ mask = <<>>
  /\ o = <<>>
  /\ window_length = 1
  /\ step_num = 0
  /\ prev_k = Zeros(1)
  /\ prev_v = Zeros(1)
  /\ y = <<>>
  /\ radius = 1
  /\ shared_kv = TRUE
  /\ context = [mode |-> "incremental", position |-> 0, states |-> <<Zeros(1)>>]
  /\ lsa_o = <<>>
  /\ halo = NoHalo
  /\ bucket = NoBucket /\ call = NoCall /\ cache = <<>> /\ bias_log = NoBiasLog
  /\ RestNew

NextBlock == block_partition

SpecBlock == InitBlock /\ [][NextBlock]_vars

(* Every variable of the attention functions at rest.                      *)
AtRest ==
  /\ length = 1
  /\ window_size = 1
  /\ length_per_split = None
  /\ block_length = 0
  /\ num_blocks = 0
  /\ k = <<>>
  /\ v = <<>>
  /\ mask = <<>>
  /\ o = <<>>
  /\ window_length = 1
  /\ step_num = 0
  /\ prev_k = Zeros(1)
  /\ prev_v = Zeros(1)
  /\ y = <<>>
  /\ radius = 1
  /\ shared_kv = TRUE
  /\ context = [mode |-> "incremental", position |-> 0, states |-> <<Zeros(1)>>]
  /\ lsa_o = <<>>
  /\ halo = NoHalo

(* Calls of _relative_position_bucket over both modes, the bucket counts   *)
(* and the distances.                                                      *)
InitBucket ==
  /\ AtRest
  /\ bucket \in {[NoBucket EXCEPT !.bidirectional = b, !.num_buckets = nb,
                                  !.max_distance = md] :
                   b \in BOOLEAN, nb \in 2..MaxBuckets, md \in Distances}
  /\ call = NoCall /\ cache = <<>> /\ bias_log = NoBiasLog
  /\ RestNew

NextBucket == call_relative_position_bucket

SpecBucket == InitBucket /\ [][NextBucket]_vars

(* One graph-building call with any arguments.                             *)
InitCalls ==
  /\ AtRest
  /\ bucket = NoBucket
  /\ call = NoCall
  /\ cache = <<>> /\ bias_log = NoBiasLog
  /\ RestNew

NextCalls ==
  \/ call_attention_params
  \/ call_conv_with_blocks
  \/ call_multihead_attention
  \/ call_self_attention
  \/ call_dot_product_attention

SpecCalls == InitCalls /\ [][NextCalls]_vars

(* The layers of one model call computing their biases on one context.     *)
InitCache ==
  /\ AtRest
  /\ bucket = NoBucket
  /\ call = NoCall
  /\ cache = <<>>
  /\ bias_log \in {[NoBiasLog EXCEPT !.fully_autoregressive = fa,
                                     !.has_priority = hp] :
                     fa \in BOOLEAN, hp \in BOOLEAN}
  /\ RestNew

NextCache == compute_bias

SpecCache == InitCache /\ [][NextCache]_vars

(* One attention layer of a decoder and one multihead_self_attention       *)
(* decode loop, each run from zero-initialized states.                     *)
InitDecode ==
  /\ AtRest
  /\ bucket = NoBucket
  /\ call = NoCall
  /\ cache = <<>>
  /\ bias_log = NoBiasLog
  /\ \E kd \in {"SelfAttention", "LocalSelfAttention"}, skv \in BOOLEAN,
        sz \in 1..MaxWindow :
       dec = [NoDec EXCEPT
                !.kind = kd, !.shared_kv = skv, !.size = sz,
                !.length = IF kd = "SelfAttention" THEN sz ELSE MaxSteps,
                !.states = IF skv THEN <<Zeros(sz)>> ELSE <<Zeros(sz), Zeros(sz)>>]
  /\ \E n \in 1..MaxWindow :
       msa = [NoMsa EXCEPT !.memory_length = n, !.prev_k = Zeros(n),
                           !.prev_v = Zeros(n)]
  /\ search = NoSearch

NextDecode ==
  \/ layer_call_first_part
  \/ layer_call_incremental
  \/ layer_call_other
  \/ multihead_self_attention_incremental

SpecDecode == InitDecode /\ [][NextDecode]_vars

(* The block-length loop over per-shard lengths on both sides of 128; the  *)
(* loop is a sequential program, so it keeps taking its next step.         *)
InitSearch ==
  /\ AtRest
  /\ bucket = NoBucket
  /\ call = NoCall
  /\ cache = <<>>
  /\ bias_log = NoBiasLog
  /\ dec = NoDec
  /\ msa = NoMsa
  /\ \E s \in 1..MaxShard,
        ws \in (1..MaxWindow) \cup {MinBlockBound + d : d \in 0..MaxWindow} :
       search = [NoSearch EXCEPT !.lps = s, !.window_size = ws, !.phase = "init"]

NextSearch ==
  \/ search_start
  \/ search_step
  \/ search_exit

SpecSearch == InitSearch /\ [][NextSearch]_vars /\ WF_vars(NextSearch)

----------------------------------------------------------------------------
(* Properties.                                                             *)

(* the per-shard length the block search divides                           *)
PerShard == IF length_per_split = None THEN length ELSE length_per_split

(* C1: the chosen block_length is the largest b <= max(window_size, 128)   *)
(* that divides the per-shard length, and num_blocks * block_length is the *)
(* length.                                                                 *)
C1_LargestDivisor ==
  num_blocks > 0 =>
    /\ block_length >= 1
    /\ block_length <= max(window_size, 128)
    /\ PerShard % block_length = 0
    /\ \A b \in (block_length + 1)..max(window_size, 128) : PerShard % b /= 0
    /\ num_blocks * block_length = length

C1_Witness ==
  /\ num_blocks > 1
  /\ length > 128
  /\ length_per_split = None
  /\ block_length < 128

(* C2: after batch attention and incremental steps 0..t, the output of     *)
(* step t attends to the same bag of entries as batch query position t,    *)
(* whenever window_length >= window_size.                                  *)
C2_IncrementalEqualsBatch ==
  (num_blocks > 0 /\ step_num > 0 /\ window_length >= window_size) =>
     y = o[step_num - 1]

(* first position of the block that holds position p                      *)
BlockStart(p) == (p \div block_length) * block_length

(* dense visibility of memory index m (negative: pre-time) for query p     *)
DenseVisible(p, m) ==
  /\ m <= p
  /\ m > p - block_length
  /\ m >= BlockStart(p) - window_size

(* dense masked attention over the unpadded sequence                       *)
DenseUnpadded(p) ==
  [e \in 0..length |-> IF e /= 0 /\ DenseVisible(p, e - 1) THEN 1 ELSE 0]

(* dense masked attention over the sequence left-padded with window_size   *)
(* zero entries                                                            *)
DensePadded(p) ==
  [e \in 0..length |->
     IF e = 0 THEN Cardinality({m \in (0 - window_size)..(0 - 1) : DenseVisible(p, m)})
     ELSE IF DenseVisible(p, e - 1) THEN 1 ELSE 0]

(* C3 as stated: the blocked output equals dense attention over the        *)
(* unpadded sequence, no zero-filled halo entry taking part.               *)
C3_DenseUnpadded ==
  num_blocks > 0 => \A p \in 0..(length - 1) : o[p] = DenseUnpadded(p)

(* C3 amended: the blocked output equals dense masked attention over the   *)
(* sequence left-padded with window_size zero entries: the real positions  *)
(* attended are those the dense mask makes visible, and the zero-filled    *)
(* halo entries inside the visible range take part in the softmax.         *)
C3_DensePadded ==
  num_blocks > 0 => \A p \in 0..(length - 1) : o[p] = DensePadded(p)

C3_Witness ==
  /\ num_blocks >= 2
  /\ block_length >= 2
  /\ window_size >= 2
  /\ o[0][0] > 0
  /\ o[length - 1][KeyOf(length - 2)] > 0

(* C4: a query at position p sees memory position m only if                *)
(* p - window_size < m <= p.                                               *)
C4_WindowRange ==
  num_blocks > 0 =>
    \A p \in 0..(length - 1), m \in 0..(length - 1) :
       o[p][KeyOf(m)] > 0 => (p - window_size < m /\ m <= p)

(* C5: the causal block-local mask makes memory index j visible to query   *)
(* index i iff j <= i + halo_size, and its memory axis is as long as the   *)
(* augmented key / value block.                                            *)
C5_LocalBlockMask ==
  (halo.op = "spatial" /\ halo.mask_right) =>
    \A b \in DOMAIN halo.k, i \in 0..(halo.w_dim - 1) :
       /\ DOMAIN halo.mask[i] = DOMAIN halo.k[b]
       /\ DOMAIN halo.mask[i] = DOMAIN halo.v[b]
       /\ \A j \in DOMAIN halo.mask[i] :
            (halo.mask[i][j] = 0) <=> (j <= i + halo.w_dim)

C5_Witness ==
  /\ halo.op = "spatial"
  /\ halo.mask_right
  /\ halo.w_dim >= 2
  /\ halo.num_w_blocks >= 2

(* C6: in causal mode every attended entry is zero-filled or a position    *)
(* <= the query's position, and no block's keys / values hold data of a    *)
(* later block.                                                            *)
C6_NoFutureLeakage ==
  /\ num_blocks > 0 =>
       /\ \A p \in 0..(length - 1), e \in 1..length :
            o[p][e] > 0 => e <= KeyOf(p)
       /\ \A b \in DOMAIN k : \A j \in DOMAIN k[b] :
            /\ k[b][j] <= KeyOf(b * block_length + block_length - 1)
            /\ v[b][j] <= KeyOf(b * block_length + block_length - 1)
  /\ (halo.op \in {"spatial", "local_1d"} /\ halo.mask_right) =>
       \A b \in DOMAIN halo.k : \A j \in DOMAIN halo.k[b] :
            /\ halo.k[b][j] <= KeyOf(b * halo.w_dim + halo.w_dim - 1)
            /\ halo.v[b][j] <= KeyOf(b * halo.w_dim + halo.w_dim - 1)
  /\ (halo.op = "spatial" /\ halo.mask_right) =>
       \A b \in DOMAIN halo.o : \A i \in DOMAIN halo.o[b] : \A e \in DOMAIN halo.o[b][i] :
            (halo.o[b][i][e] > 0 /\ e /= 0) => e <= KeyOf(b * halo.w_dim + i)

C6_Witness ==
  /\ num_blocks >= 2
  /\ block_length >= 2
  /\ halo.op = "spatial"
  /\ halo.mask_right
  /\ halo.num_w_blocks >= 2
  /\ halo.w_dim >= 2
  /\ halo.o[1][0][KeyOf(0)] > 0

(* length of the extended axis: one halo in left-only mode, two otherwise  *)
Extended(n, mr) == IF mr THEN n + n ELSE n + 2 * n

(* C7: after the halo exchange the memory block axis of k and v has length *)
(* block + halo (left-only) or block + 2*halo (symmetric), sharded or not; *)
(* the query block length is unchanged.                                    *)
C7_ExtendedLength ==
  /\ halo.op \in {"local_1d", "spatial"} =>
       \A b \in DOMAIN halo.k :
          /\ DOMAIN halo.k[b] = 0..(Extended(halo.w_dim, halo.mask_right) - 1)
          /\ DOMAIN halo.v[b] = 0..(Extended(halo.w_dim, halo.mask_right) - 1)
  /\ halo.op = "spatial" =>
       \A b \in DOMAIN halo.o : DOMAIN halo.o[b] = 0..(halo.w_dim - 1)
  /\ halo.op = "local_2d" =>
       \A t \in {halo.k, halo.v} :
         \A hb \in DOMAIN t.a : \A wb \in DOMAIN t.a[hb] :
            /\ DOMAIN t.a[hb][wb] = 0..(Extended(halo.h_dim, halo.mask_right) - 1)
            /\ \A r \in DOMAIN t.a[hb][wb] :
                 DOMAIN t.a[hb][wb][r] = 0..(Extended(halo.w_dim, halo.mask_right) - 1)

C7_Witness ==
  /\ halo.op = "local_2d"
  /\ halo.num_h_blocks = None
  /\ halo.num_w_blocks = 2
  /\ halo.mask_right
  /\ halo.h_dim = 2
  /\ halo.w_dim = 1

(* what a 1D augmented block must hold when it is the only block           *)
OnlyBlock1d(w, mr) ==
  [j \in 0..(Extended(w, mr) - 1) |-> IF j >= w /\ j < 2 * w THEN KeyOf(j - w) ELSE 0]

(* C8: without a blocks dimension, the zero-padding fallback gives the     *)
(* augmented block that the halo exchange gives for exactly one block.     *)
C8_PadEqualsOneBlockExchange ==
  /\ (halo.op = "local_1d" /\ halo.num_w_blocks = None) =>
       /\ halo.k[0] = OnlyBlock1d(halo.w_dim, halo.mask_right)
       /\ halo.v[0] = OnlyBlock1d(halo.w_dim, halo.mask_right)
       /\ LET one == local_1d_halo_exchange(blocks_1d(1, halo.w_dim),
                                            blocks_1d(1, halo.w_dim),
                                            1, halo.w_dim, halo.mask_right)
          IN  halo.k = one.k /\ halo.v = one.v
  /\ (halo.op = "local_2d" /\ (halo.num_h_blocks = None \/ halo.num_w_blocks = None)) =>
       LET nh  == IF halo.num_h_blocks = None THEN 1 ELSE halo.num_h_blocks
           nw  == IF halo.num_w_blocks = None THEN 1 ELSE halo.num_w_blocks
           one == local_2d_halo_exchange(
                    blocks_2d(nh, halo.h_dim, nw, halo.w_dim),
                    blocks_2d(nh, halo.h_dim, nw, halo.w_dim),
                    nh, halo.h_dim, nw, halo.w_dim, halo.mask_right)
       IN  halo.k = one.k /\ halo.v = one.v

C8_Witness ==
  /\ halo.op = "local_2d"
  /\ halo.num_h_blocks = None
  /\ halo.num_w_blocks = None
  /\ halo.mask_right
  /\ halo.h_dim = 2
  /\ halo.w_dim = 2

(* a window differs from the previous one only in slot t mod W, which      *)
(* holds the key / value of position t                                     *)
OneSlotWritten(new, old, t, W) ==
  /\ DOMAIN new = DOMAIN old
  /\ new[t % W] = KeyOf(t)
  /\ \A s \in DOMAIN old : s /= t % W => new[s] = old[s]

(* C9: an incremental step at position t changes the key / value state     *)
(* only in slot t mod W, which receives the new key / value.               *)
C9_OneSlotChanges ==
  [][ /\ step_num' /= step_num =>
           /\ OneSlotWritten(prev_k', prev_k, step_num, window_length)
           /\ OneSlotWritten(prev_v', prev_v, step_num, window_length)
      /\ context' /= context =>
           /\ DOMAIN context'.states = DOMAIN context.states
           /\ \A i \in DOMAIN context.states :
                OneSlotWritten(context'.states[i], context.states[i],
                               context.position, radius) ]_vars

C9_Witness ==
  /\ window_length >= 2
  /\ step_num > window_length
  /\ radius >= 2
  /\ context.position > radius
  /\ ~shared_kv

(* the entry slot s holds after the steps at positions 0..t                *)
LatestInSlot(s, t, W) ==
  LET P == {p \in 0..t : p % W = s}
  IN  IF P = {} THEN 0
      ELSE KeyOf(CHOOSE p \in P : \A q \in P : q <= p)

(* the most recent min(t + 1, W) tokens                                    *)
MostRecent(t, W) == {KeyOf(p) : p \in max(0, t - W + 1)..t}

(* C10: after steps 0..t, slot s holds the key / value of the largest      *)
(* position p <= t with p mod W = s, or zero; the window holds exactly the *)
(* most recent min(t + 1, W) tokens.                                       *)
C10_CircularWindow ==
  /\ \A s \in 0..(window_length - 1) :
       /\ prev_k[s] = LatestInSlot(s, step_num - 1, window_length)
       /\ prev_v[s] = LatestInSlot(s, step_num - 1, window_length)
  /\ {prev_k[s] : s \in 0..(window_length - 1)} \ {0}
       = MostRecent(step_num - 1, window_length)
  /\ \A i \in DOMAIN context.states :
       /\ \A s \in 0..(radius - 1) :
            context.states[i][s] = LatestInSlot(s, context.position - 1, radius)
       /\ {context.states[i][s] : s \in 0..(radius - 1)} \ {0}
            = MostRecent(context.position - 1, radius)

C10_Witness ==
  /\ window_length >= 2
  /\ step_num > window_length + 1
  /\ radius >= 2
  /\ context.position > radius + 1

(* the sequence positions whose entries get weight in the attention bag b  *)
VisiblePositions(b) == {p \in 0..(MaxSteps - 1) : b[KeyOf(p)] > 0}

(* C11: for a fully autoregressive model decoded at positions 0, 1, 2, ... *)
(* the entries visible to the query of incremental step t are those        *)
(* visible to query position t on the full-attention path of the same      *)
(* layer, the positions m with t - radius < m <= t and m >= 0.             *)
C11_DecodeTrainConsistency ==
  (lsa_o /= <<>> /\ nothing_fancy(MaxSteps, radius)) =>
    LET t    == context.position - 1
        full == LocalSelfAttention_full(MaxSteps, radius, TRUE, 0..MaxSteps)
    IN  /\ lsa_o = full[t]
        /\ lsa_o[0] = 0
        /\ VisiblePositions(lsa_o) = {m \in 0..t : t - radius < m}

C11_Witness ==
  /\ lsa_o /= <<>>
  /\ radius >= 2
  /\ context.position > radius + 1

(* C12 as stated: at step t < window_length of                             *)
(* masked_local_attention_1d_incremental, started from zero-initialized    *)
(* prev_k / prev_v, no attention weight goes to a slot p > t, that is, to  *)
(* a slot that still holds zeros.                                          *)
C12_UnwrittenHidden ==
  (y /= <<>> /\ step_num - 1 < window_length) => y[0] = 0

(* C12 amended: the call passes mask=None, so every slot of the window     *)
(* gets weight: after the step at position t the query attends the         *)
(* min(t + 1, window_length) written slots and the max(0, window_length -  *)
(* 1 - t) slots p > t that still hold zeros.                               *)
C12_UnwrittenAttended ==
  y /= <<>> =>
    /\ y[0] = max(0, window_length - step_num)
    /\ \A p \in 0..(length - 1) :
         y[KeyOf(p)] = IF KeyOf(p) \in MostRecent(step_num - 1, window_length)
                       THEN 1 ELSE 0

C12_Witness ==
  /\ y /= <<>>
  /\ step_num < window_length
  /\ y[0] > 0

(* the arguments of the last _relative_position_bucket call                *)
BucketHalf == half_buckets(bucket.num_buckets, bucket.bidirectional)

BucketExact == max_exact_of(bucket.num_buckets, bucket.bidirectional)

Returned == bucket.op = "called" /\ bucket.raised = "none"

(* C13: for every relative position, every num_buckets >= 2 and both       *)
(* values of bidirectional the call returns a bucket in [0, num_buckets).  *)
C13_BucketInRange ==
  bucket.op = "called" =>
    /\ bucket.raised = "none"
    /\ \A rp \in DOMAIN bucket.ret : bucket.ret[rp] \in 0..(bucket.num_buckets - 1)

(* buckets never decrease with the magnitude among positions of one sign   *)
Monotonic ==
  \A a \in DOMAIN bucket.ret : \A b \in DOMAIN bucket.ret :
    ((0 <= a /\ a < b) \/ (b < a /\ a <= 0)) => bucket.ret[a] <= bucket.ret[b]

(* one bucket from max_distance on, one bucket up to -max_distance         *)
FarCollapsed ==
  \A a \in DOMAIN bucket.ret : \A b \in DOMAIN bucket.ret :
    (  (a >= bucket.max_distance /\ b >= bucket.max_distance)
    \/ (a <= 0 - bucket.max_distance /\ b <= 0 - bucket.max_distance))
    => bucket.ret[a] = bucket.ret[b]

C15_SignHalves ==
  (bucket.op = "called" /\ bucket.bidirectional) =>
    /\ bucket.raised = "none"
    /\ \A rp \in DOMAIN bucket.ret :
         IF 0 - rp < 0
         THEN bucket.ret[rp] \in BucketHalf..(2 * BucketHalf - 1)
         ELSE bucket.ret[rp] \in 0..(BucketHalf - 1)
    /\ \A x \in DOMAIN bucket.ret :
         x /= 0 => bucket.ret[0 - x] /= bucket.ret[x]

(* C16: attention_params raises ValueError for every (num_heads,           *)
(* num_memory_heads) whose num_memory_heads does not divide num_heads, and *)
(* constructs no AttentionParams then (num_memory_heads = 0 is the         *)
(* documented "no separate memory heads" setting, not a divisor).          *)
C16_NonDivisorRejected ==
  (  call.fn = "attention_params"
  /\ call.num_memory_heads > 0
  /\ call.num_heads % call.num_memory_heads /= 0)
  => call.raised = "ValueError" /\ call.params = {} /\ call.ops = <<>>

(* a filter size of the wrong parity for the function, on some axis        *)
WrongParity ==
  \E i \in DOMAIN call.filter_size :
    call.filter_size[i] % 2 = (IF transposed(call.fn) THEN 1 ELSE 0)

BlocksGiven == \E i \in DOMAIN call.blocks : call.blocks[i]

(* C17 as stated: a blocked convolution whose filter has an even size on   *)
(* some axis, or a transposed one whose filter has an odd size on some     *)
(* axis, fails with an assertion error and constructs nothing.             *)
C17_ParityAsserted ==
  (call.fn \in ConvFns /\ WrongParity)
  => call.raised = "AssertionError" /\ call.ops = <<>>

(* C17 amended: that holds when at least one blocks dimension is given;    *)
(* without any, the call is the plain convolution with the filter as       *)
(* given, of whatever parity.                                              *)
C17_ParityAssertedWhenBlocked ==
  (call.fn \in ConvFns /\ WrongParity) =>
    IF BlocksGiven
    THEN call.raised = "AssertionError" /\ call.ops = <<>>
    ELSE call.raised = "none"
         /\ call.ops = <<Op(plain_conv(call.fn), 0, 0, call.padding)>>

C17_Witness ==
  /\ call.fn = "conv3d_with_blocks"
  /\ BlocksGiven
  /\ call.filter_size[1] % 2 = 1 /\ call.filter_size[2] % 2 = 1
  /\ call.filter_size[3] % 2 = 0
  /\ call.raised = "AssertionError"

(* C18 as stated: a blocked convolution called with a padding other than   *)
(* "SAME" raises NotImplementedError and constructs nothing.               *)
C18_PaddingRejected ==
  (call.fn \in ConvFns /\ call.padding /= "SAME")
  => call.raised = "NotImplementedError" /\ call.ops = <<>>

(* C18 amended: with a blocks dimension given, a padding other than "SAME" *)
(* constructs nothing: the call raises AssertionError when the filter has  *)
(* the wrong parity and NotImplementedError otherwise; without any blocks  *)
(* dimension it is the plain convolution with the padding as given.        *)
C18_PaddingRejectedWhenBlocked ==
  (call.fn \in ConvFns /\ call.padding /= "SAME") =>
    IF BlocksGiven
    THEN /\ call.ops = <<>>
         /\ call.raised = IF WrongParity THEN "AssertionError"
                          ELSE "NotImplementedError"
    ELSE call.raised = "none"
         /\ call.ops = <<Op(plain_conv(call.fn), 0, 0, call.padding)>>

C18_Witness ==
  /\ call.fn \in ConvFns
  /\ BlocksGiven
  /\ ~WrongParity
  /\ call.padding = "VALID"
  /\ call.raised = "NotImplementedError"

(* the memory antecedent disagrees with the query on batch or channels     *)
MemoryDiffers ==
  \E m \in call.memory :
    m.batch /= call.query_batch \/ m.channels /= call.io_channels

(* C19 as stated: multihead_attention raises ValueError whenever the       *)
(* memory's batch dimensions or channels differ from the query's, before   *)
(* any part of the call's graph (variables, projections, attention) is     *)
(* constructed.                                                            *)
C19_NothingBeforeError ==
  (call.fn = "multihead_attention" /\ MemoryDiffers)
  => call.raised = "ValueError" /\ call.ops = <<>>

(* C19 amended: the ValueError comes after the qkvo variable has been      *)
(* created and unstacked, and before any projection or attention.          *)
C19_OnlyVariablesBeforeError ==
  (call.fn = "multihead_attention" /\ MemoryDiffers) =>
    /\ call.raised = "ValueError"
    /\ call.ops = <<Op("get_variable", 0, 0, "qkvo"), Op("unstack", 0, 0, "qkvo")>>

C19_Witness ==
  /\ call.fn = "multihead_attention"
  /\ \E m \in call.memory :
       m.batch = call.query_batch /\ m.channels /= call.io_channels
  /\ call.raised = "ValueError"

(* C20: over any sequence of compute_bias calls on one context a key of    *)
(* context.cache, once written, keeps its value, and a later call with     *)
(* that key returns the stored value without computing a bias or creating  *)
(* a variable.                                                             *)
C20_CacheWrittenOnce ==
  [][ \A kk \in DOMAIN cache :
        /\ kk \in DOMAIN cache'
        /\ cache'[kk] = cache[kk]
        /\ bias_log'.key = {kk} =>
             /\ bias_log'.ret = cache[kk]
             /\ bias_log'.computed = bias_log.computed
             /\ bias_log'.variables = bias_log.variables ]_vars

C20_Witness ==
  /\ bias_log.hit
  /\ bias_log.variables > 0
  /\ \E kk \in DOMAIN cache :
       /\ bias_log.key = {kk}
       /\ kk[4] = "bias_shared"
       /\ bias_log.ret = cache[kk]

RECURSIVE run_incremental(_, _)
(* the window after the incremental steps at positions 0..(n - 1), from a  *)
(* zero-initialized window                                                 *)
run_incremental(n, r) ==
  IF n = 0 THEN Zeros(r)
  ELSE lsa_window(KeyOf(n - 1), run_incremental(n - 1, r), n - 1, r)

(* the positions p with n - r <= p < n, p >= 0 and p mod r = w             *)
HandoffPositions(n, r, w) == {p \in 0..(n - 1) : n - r <= p /\ p % r = w}

(* C26: the window state LocalSelfAttention records in first_part mode for *)
(* initial_position n holds in slot w the key / value of the one position  *)
(* p with n - radius <= p < n and p mod radius = w (zero without one), and *)
(* equals the state after n incremental steps from a zero window.          *)
C26_PrefixHandoff ==
  (dec.kind = "LocalSelfAttention" /\ dec.mode = "first_part") =>
    \A i \in DOMAIN dec.states :
      /\ dec.states[i] = run_incremental(dec.position, dec.size)
      /\ \A w \in 0..(dec.size - 1) :
           LET P == HandoffPositions(dec.position, dec.size, w)
           IN  /\ Cardinality(P) <= 1
               /\ dec.states[i][w] = IF P = {} THEN 0
                                     ELSE KeyOf(CHOOSE p \in P : TRUE)

C26_Witness ==
  /\ dec.kind = "LocalSelfAttention"
  /\ dec.mode = "first_part"
  /\ dec.size >= 2
  /\ dec.position > dec.size
  /\ dec.position % dec.size /= 0
  /\ ~dec.shared_kv

(* C27: after the steps 0..t of multihead_self_attention_incremental from  *)
(* all-zero prev_k / prev_v (t < memory_length), slot i holds the key /    *)
(* value of token i for i <= t and zero for i > t, and the slots visible   *)
(* to the query are 0..t, those of row t of attention_mask_autoregressive. *)
C27_IncrementalMatchesAutoregressive ==
  (msa.step_num >= 1 /\ msa.step_num <= msa.memory_length) =>
    LET t == msa.step_num - 1
        n == msa.memory_length
    IN  /\ \A i \in 0..(n - 1) :
             /\ msa.prev_k[i] = IF i <= t THEN KeyOf(i) ELSE 0
             /\ msa.prev_v[i] = IF i <= t THEN KeyOf(i) ELSE 0
        /\ Support(msa.mask) = 0..t
        /\ Support(msa.mask)
             = {m \in 0..(n - 1) : attention_mask_autoregressive(t, m) = 0}
        /\ \A e \in DOMAIN msa.o :
             msa.o[e] = IF e \in {KeyOf(i) : i \in 0..t} THEN 1 ELSE 0

C27_Witness ==
  /\ msa.memory_length >= 3
  /\ msa.step_num = 2
  /\ msa.o[0] = 0
  /\ msa.prev_v[2] = 0

(* C28: with n = 1 if shared_kv else 2, a first_part call records n        *)
(* states, an incremental call reads n and records n, a call in another    *)
(* mode reads and records none; an incremental call therefore reads as     *)
(* many states as the call before it recorded.                             *)
C28_StateProtocol ==
  [][ dec' /= dec =>
        LET n == IF dec.shared_kv THEN 1 ELSE 2
        IN  /\ dec'.mode = "first_part" =>
                 (  dec'.n_read = 0 /\ dec'.n_recorded = n
                 /\ Len(dec'.states) = n)
            /\ dec'.mode = "incremental" =>
                 (  dec'.n_read = n /\ dec'.n_recorded = n
                 /\ Len(dec'.states) = n /\ dec'.n_read = Len(dec.states))
            /\ dec'.mode = "train" =>
                 (  dec'.n_read = 0 /\ dec'.n_recorded = 0
                 /\ dec'.states = dec.states) ]_vars

C28_Witness ==
  /\ dec.kind = "LocalSelfAttention"
  /\ dec.shared_kv
  /\ dec.mode = "incremental"
  /\ dec.n_read = 1
  /\ dec.position >= 2
  /\ dec.states[1][0] /= 0

(* C22: the block-length search terminates for every per-shard length     *)
(* S >= 1 and every window_size, with 1 <= block_length <=                 *)
(* max(window_size, 128) dividing S, and raises no error, block_length = 1 *)
(* included.                                                               *)
C22_SearchTerminates ==
  /\ <>(search.phase = "done")
  /\ [](search.phase /= "error")
  /\ [](search.phase = "done" =>
          /\ 1 <= search.block_length
          /\ search.block_length <= max(search.window_size, MinBlockBound)
          /\ search.lps % search.block_length = 0
          /\ search.block_length
               = choose_block_length(search.window_size, None, search.lps))

C22_Witness ==
  /\ search.phase = "done"
  /\ search.block_length = 1
  /\ search.lps > MinBlockBound

(* the blocks whose entries appear in the augmented memory of block b *)
SourceBlocks(b) ==
  {(k[b][j] - 1) \div block_length :
     j \in {jj \in 0..(window_size + block_length - 1) : k[b][jj] /= 0}}

(* ceil(window_size / block_length)                                        *)
HaloBlocks == (window_size + block_length - 1) \div block_length

ExtensionOps(i) ==
  {call.ops[n] : n \in {m \in DOMAIN call.ops :
                          /\ call.ops[m].op \in {"halo_exchange", "pad"}
                          /\ call.ops[m].axis = i}}

(* C25: in conv2d_with_blocks and conv3d_with_blocks, on the blocked path  *)
(* with odd filter sizes, a block of size n on an axis with filter size f  *)
(* enters the final convolution with size n + 2*(f // 2), extended by halo *)
(* exchange where the blocks dimension is given and by zero padding where  *)
(* it is not, and not at all for f = 1; the final convolution is VALID,    *)
(* and with stride 1 it gives n outputs on every axis.                     *)
C25_BlockShapePreserved ==
  (/\ call.fn \in {"conv2d_with_blocks", "conv3d_with_blocks"}
   /\ call.raised = "none"
   /\ (call.blocks[1] \/ call.blocks[2])) =>
    /\ final_padding(call.ops) = "VALID"
    /\ \A i \in 1..spatial_dims(call.fn) :
         LET n == call.x_shape[i]
             f == call.filter_size[i]
         IN  /\ f % 2 = 1
             /\ call.padded_shape[i] = n + 2 * (f \div 2)
             /\ (f = 1 => call.padded_shape[i] = n)
             /\ (f > 1 /\ i <= 2 =>
                   ExtensionOps(i) =
                     {Op(IF call.blocks[i] THEN "halo_exchange" ELSE "pad",
                         i, f \div 2, "")})
             /\ (f = 1 /\ i <= 2 => ExtensionOps(i) = {})
             /\ (i = 3 => \A e \in ExtensionOps(i) : e.op = "pad")
             /\ (call.strides = 1 => call.out_shape[i] = n)

C25_Witness ==
  /\ call.fn = "conv3d_with_blocks"
  /\ call.raised = "none"
  /\ call.blocks[1] /\ ~call.blocks[2]
  /\ call.filter_size = <<3, 3, 1>>
  /\ call.strides = 1
  /\ call.x_shape = <<2, 1, 2>>
  /\ call.padded_shape = <<4, 3, 2>>
  /\ call.out_shape = call.x_shape

DropoutOps == {n \in DOMAIN call.ops : call.ops[n].op = "dropout"}

(* C23: whenever context.train is false the dropout rate SelfAttention     *)
(* passes to the attention kernel is 0.0 whatever dropout_rate the layer   *)
(* was configured with, dot_product_attention builds no dropout when the   *)
(* rate is 0.0, and building the kwargs leaves the layer's stored          *)
(* attention_kwargs as they were.                                          *)
C23_NoDropoutAtEvaluation ==
  call.fn = "SelfAttention.call" =>
    /\ (~call.train => call.kwargs["dropout_rate"] = 0)
    /\ (call.train => call.kwargs["dropout_rate"] = call.dropout_rate)
    /\ (call.kwargs["dropout_rate"] = 0 => DropoutOps = {})
    /\ (~call.train => DropoutOps = {})
    /\ call.attention_kwargs = call.attention_kwargs_before

C23_Witness ==
  /\ call.fn = "SelfAttention.call"
  /\ ~call.train
  /\ call.dropout_rate = 50
  /\ call.attention_kwargs_before = ("dropout_rate" :> 50)
  /\ call.kwargs["dropout_rate"] = 0
  /\ DropoutOps = {}

(* a bias without the name of the variable its values come from *)
BiasShape(b) ==
  {[min |-> x.min, max |-> x.max, priority |-> x.priority,
    relative |-> {[type |-> r.type, buckets |-> r.buckets, heads |-> r.heads,
                   bidirectional |-> r.bidirectional] : r \in x.relative}] :
     x \in b}

(* C29: every layer setting that influences the bias of a cacheable layer  *)
(* is part of the cache key: the bias returned from the cache to a layer   *)
(* is the bias that layer would have computed itself (same visible pairs,  *)
(* same relative-position bucket assignment).                              *)
C29_CachedBiasIsOwn ==
  bias_log.hit =>
    \A layer \in bias_log.layer :
      BiasShape(bias_log.ret)
        = BiasShape(build_bias(layer, bias_log.fully_autoregressive,
                               bias_log.has_priority, 0))

(* the finished call masked every key position but one with -1e9 *)
OneUnmasked(u) ==
  /\ call.fn = "dot_product_attention"
  /\ call.attn.mask /= {}
  /\ \A m \in call.attn.mask :
       /\ m[u] = 0
       /\ \A j \in DOMAIN m : j /= u => m[j] = 1

SomeUnmasked ==
  /\ call.fn = "dot_product_attention"
  /\ \A m \in call.attn.mask : \E j \in DOMAIN m : m[j] = 0

(* C24 as stated: with a bias of -1e9 on all but one key position the      *)
(* unmasked position has softmax weight 1 and the masked ones 0, the       *)
(* output equals the unmasked position's value vector, and the result is   *)
(* not NaN while some position is unmasked.                                *)
C24_OutputIsUnmaskedValue ==
  /\ \A u \in 1..MaxKeys :
       OneUnmasked(u) =>
         /\ call.attn.weights[u] = call.attn.total
         /\ \A j \in 1..MaxKeys : j /= u => call.attn.weights[j] = 0
         /\ call.attn.num = u * call.attn.den
  /\ (SomeUnmasked => call.attn.den /= 0)

(* C24 amended: the masked positions always get weight 0 and the result is *)
(* never NaN; with dropout = 0.0 and extra_logit = None (the defaults) the *)
(* unmasked position has weight 1 and the output is its value vector; an   *)
(* extra_logit takes its share of the weight from the unmasked position,   *)
(* and with dropout the output is 0 or the value vector over 1 - dropout.  *)
C24_OutputIsUnmaskedValueByDefault ==
  /\ \A u \in 1..MaxKeys :
       OneUnmasked(u) =>
         /\ \A j \in 1..MaxKeys : j /= u => call.attn.weights[j] = 0
         /\ call.attn.weights[u] > 0
         /\ (call.attn.extra_logit = {} => call.attn.weights[u] = call.attn.total)
         /\ \A e \in call.attn.extra_logit :
              call.attn.total
                = call.attn.weights[u] + pow(2, e + MaxLogit)
         /\ (call.attn.dropout = 0 /\ call.attn.extra_logit = {} =>
               call.attn.num = u * call.attn.den)
         /\ (call.attn.dropout /= 0 /\ call.attn.extra_logit = {} =>
               \/ call.attn.num = 0
               \/ (100 - call.attn.dropout) * call.attn.num
                    = 100 * u * call.attn.den)
  /\ (SomeUnmasked => call.attn.den /= 0)

C24_Witness ==
  /\ OneUnmasked(2)
  /\ call.attn.logits = <<MaxLogit, -MaxLogit, 0>>
  /\ call.attn.dropout = 0
  /\ call.attn.extra_logit = {}
  /\ call.attn.weights[2] = call.attn.total
  /\ call.attn.num = 2 * call.attn.den

====
